---------------------------- MODULE Spec2Model ----------------------------
(***************************************************************************)
(* Resilience layer of n8n-mcp: the circuit breaker                        *)
(* (src/core/circuit_breaker.py), the per-actor sliding-window rate        *)
(* limiter (src/core/rate_limiter.py), the TTL cache (src/core/cache.py)   *)
(* and the metrics collector (src/core/metrics.py).  Each component has    *)
(* its own specification; the variables of the other components stay as    *)
(* constructed.                                                            *)
(*                                                                         *)
(* Time is time.time() read as an integer number of seconds.  The clock is *)
(* taken to be non-decreasing.  A wrapped operation is an outcome (it      *)
(* returns a value or raises an Exception) together with the time it takes *)
(* to run.                                                                 *)
(***************************************************************************)
EXTENDS Integers, Naturals, Sequences, FiniteSets, TLC

VARIABLES
    service_name,       \* CircuitBreaker.service_name
    failure_threshold,  \* CircuitBreaker.failure_threshold
    recovery_timeout,   \* CircuitBreaker.recovery_timeout
    success_threshold,  \* CircuitBreaker.success_threshold
    cb,                 \* _state, _failure_count, _success_count, _last_failure_time
    now,                \* the value time.time() returns
    last,               \* the most recent breaker operation, as its caller saw it
    run,                \* failing calls made in a row since Closed with zero counters
                        \* (-1: none; counted up to failure_threshold + 1)
    streak,             \* length of the current run of consecutive failing calls
                        \* (counted up to failure_threshold)
    maxStreak,          \* longest run of consecutive failing calls so far
    hoSucc,             \* successful calls completed in a row since entering HalfOpen
    max_per_minute,     \* RateLimiter.max_per_minute
    buckets,            \* RateLimiter._buckets: actor -> deque of timestamps
    admitted,           \* per actor, the times of every check that was let through
    attempts,           \* per actor, its first max_per_minute + 1 checks: time, verdict
    rl_last,            \* the most recent check, as its caller saw it
    default_ttl,        \* SimpleCache.default_ttl
    cache,              \* SimpleCache._cache: key -> CacheEntry (value, expiry)
    stored,             \* per key, what was last set and whether it is still kept
    c_last,             \* the most recent cache operation, as its caller saw it
    request_counts,     \* MetricsCollector._request_counts
    error_counts,       \* MetricsCollector._error_counts
    cache_hits,         \* MetricsCollector._cache_hits
    cache_misses,       \* MetricsCollector._cache_misses
    request_times,      \* MetricsCollector._request_times
    latency_samples,    \* MetricsCollector._latency_samples
    state_changes,      \* MetricsCollector._circuit_breaker_state_changes
    start_time,         \* MetricsCollector._start_time
    lock,               \* MetricsCollector._lock, a threading.Lock
    m_pc,               \* where the calling thread is inside the collector
    m_last,             \* the most recent collector operation, as its caller saw it
    recorded,           \* recording calls made since the first state or reset()
    feed,               \* the latency series fed to the collector
    th_pc,              \* per thread, where it is inside a recording call
    th_call,            \* per thread, the recording call it is making
    th_reg,             \* per thread, the counter value it has loaded
    th_calls,           \* per thread, the recording calls it has started
    done_calls,         \* the recording calls that have returned, by kind
    failed_since,       \* a failure was recorded since construction or reset()
    stats,              \* the latest get_stats(): the breaker around it, the dict
    call_pc,            \* where each of the overlapping calls is in call()
    promoted,           \* the calls that set HALF_OPEN since the breaker opened
    erased,             \* a promotion zeroed a success_count that was positive
    ho_invoked,         \* operations invoked in the latest HalfOpen episode
    completed,          \* the completion of a call, when it was the latest step
    chk,                \* where each concurrent check() is, its actor and its now
    chk_started,        \* how many concurrent checks have been started
    made,               \* what the constructor call followed has yielded
    ctor                \* that constructor call: the class and the arguments

cbVars == <<service_name, failure_threshold, recovery_timeout, success_threshold,
            cb, last, run, streak, maxStreak, hoSucc, failed_since>>

rlVars == <<max_per_minute, buckets, admitted, attempts, rl_last>>

cacheVars == <<default_ttl, cache, stored, c_last>>

metricsVars ==
    <<request_counts, error_counts, cache_hits, cache_misses, request_times,
      latency_samples, state_changes, start_time, lock, m_pc, m_last, recorded, feed>>

threadVars == <<th_pc, th_call, th_reg, th_calls, done_calls>>

ctorVars == <<made, ctor>>

statsVars == <<stats>>

overlapVars == <<call_pc, promoted, erased, ho_invoked, completed>>

raceVars == <<chk, chk_started>>

vars == <<cbVars, rlVars, cacheVars, metricsVars, threadVars, ctorVars, statsVars, overlapVars, raceVars, now>>

(* What an operation of one component leaves alone.                        *)
notBreaker == <<rlVars, cacheVars, metricsVars, threadVars, ctorVars, statsVars,
    overlapVars, raceVars>>
notLimiter == <<cbVars, cacheVars, metricsVars, threadVars, ctorVars, statsVars,
    overlapVars, raceVars>>
notCache == <<cbVars, rlVars, metricsVars, threadVars, ctorVars, statsVars,
    overlapVars, raceVars>>
notMetrics == <<cbVars, rlVars, cacheVars, threadVars, ctorVars, statsVars,
    overlapVars, raceVars>>
notCollector == <<cbVars, rlVars, cacheVars, ctorVars, statsVars,
    overlapVars, raceVars>>

----------------------------------------------------------------------------
(* Bounds of the model.                                                    *)

MaxThreshold == 2
MaxTimeout == 2
MaxTime == 7
MaxDuration == 1
MaxLimit == 2
TickUnit == 20
MaxClock == 101
MaxTtl == 2
MaxCacheTime == 4
Preload == 9
CachePreload == 5
MaxRecorded == 2
MetricsTick == 400
MaxMetricsClock == 401
FastLatency == 200
MaxSamples == 102
MaxOtherSamples == 2
MaxThreadCalls == 2
MaxCtorTime == 3
MaxStatsTime == 3
MaxOverlapTime == 3
MaxRaceChecks == 3
MaxBufferRecords == 1002
MaxRecoveryTime == 4

----------------------------------------------------------------------------
Min(a, b) == IF a <= b THEN a ELSE b

(* CircuitState                                                            *)

CLOSED == "closed"
OPEN == "open"
HALF_OPEN == "half_open"

CircuitState == {CLOSED, OPEN, HALF_OPEN}

ServiceNames == {"n8n", "test-service"}

(* What a wrapped operation does: return a value, or raise an Exception.   *)
Values == {"success"}
OpErrors == {[type |-> "ZeroDivisionError", arg |-> "division by zero"],
             [type |-> "ConnectionError", arg |-> "refused"]}
Funcs == [kind : {"return"}, val : Values] \cup [kind : {"raise"}, val : OpErrors]

(* CircuitBreakerOpen(service_name): the exception carries the name.       *)
CircuitBreakerOpen(name) == [type |-> "CircuitBreakerOpen", arg |-> name]

NoneYet == [kind |-> "none", val |-> "none"]

(* No constructor call is followed: every other specification starts from *)
(* a component that has been constructed.                                  *)
NoCtor == [class |-> "none", args |-> <<>>, error |-> "none"]


(* CircuitBreaker.__init__, lines 51-56: the message of the ValueError it  *)
(* raises, or "none".                                                      *)
BreakerConfigErrorLenient(ft, rt, st) ==
    IF ft < 0 THEN "failure_threshold must be positive"
    ELSE IF rt < 0 THEN "recovery_timeout must be positive"
    ELSE IF st < 0 THEN "success_threshold must be positive"
    ELSE "none"

BreakerConfigError(ft, rt, st) ==
    IF ft <= 0 THEN "failure_threshold must be positive"
    ELSE IF rt <= 0 THEN "recovery_timeout must be positive"
    ELSE IF st <= 0 THEN "success_threshold must be positive"
    ELSE "none"

(* RateLimiter.__init__, lines 14-15.                                      *)
LimiterConfigError(n) ==
    IF n <= 0 THEN "max_per_minute must be positive" ELSE "none"

(* The fields __init__ sets.                                               *)
NewBreaker ==
    [state |-> CLOSED, failure_count |-> 0, success_count |-> 0,
     last_failure_time |-> 0]

(* The value get_stats() reports for last_failure_time: None, or a time.   *)
NoTime == [given |-> FALSE, at |-> 0]

(* get_stats() has not been called.                                        *)
NoStats == [op |-> "none", t |-> 0, pre |-> NewBreaker, post |-> NewBreaker,
            failed |-> FALSE, ret |-> <<>>]

ConstructIdle == made = "none" /\ ctor = NoCtor /\ stats = NoStats

(* The calls that may overlap, none of them inside call().                 *)
Calls == {"a", "b"}

(* The latest step was not the completion of a call.                       *)
NotCompleted == [kind |-> "none", t |-> 0, pre |-> NewBreaker, post |-> NewBreaker]

OverlapIdle ==
    /\ call_pc = [c \in Calls |-> "idle"]
    /\ promoted = {}
    /\ erased = FALSE
    /\ ho_invoked = 0
    /\ completed = NotCompleted

(* The threads that may be inside check() together, none of them in it.    *)
Checkers == {"x", "y"}

NotChecking == [pc |-> "idle", actor |-> "none", t |-> 0]

RaceIdle ==
    /\ chk = [c \in Checkers |-> NotChecking]
    /\ chk_started = 0

(* Closed with zero counters.                                              *)
ClosedAtZero(b) ==
    b.state = CLOSED /\ b.failure_count = 0 /\ b.success_count = 0

(* The record of the latest operation: the breaker before it (pre) and     *)
(* after the promotion check (gate), the clock when it started (t0) and    *)
(* ended (t1), the wrapped operation, whether it was invoked, what the     *)
(* caller got, and the state a reset() just before it found.               *)
NoOperation ==
    [op |-> "init", pre |-> NewBreaker, gate |-> NewBreaker, t0 |-> 1, t1 |-> 1,
     func |-> NoneYet, invoked |-> FALSE, ret |-> NoneYet, reset_from |-> "none"]

ShouldAttemptResetNever(b, t) == FALSE

ShouldAttemptResetStrict(b, t) ==
    /\ b.state = OPEN
    /\ t - b.last_failure_time > recovery_timeout

_should_attempt_reset(b, t) ==
    /\ b.state = OPEN
    /\ t - b.last_failure_time >= recovery_timeout

(* call, lines 104-107: the promotion of a stale Open breaker.             *)
GateAlways(b, t) ==
    IF b.state = OPEN
    THEN [b EXCEPT !.state = HALF_OPEN, !.success_count = 0]
    ELSE b

Gate(b, t) ==
    IF _should_attempt_reset(b, t)
    THEN [b EXCEPT !.state = HALF_OPEN, !.success_count = 0]
    ELSE b

OnSuccessCountsWhenOpen(b) ==
    IF b.state \in {HALF_OPEN, OPEN}
    THEN LET n == b.success_count + 1 IN
         IF n >= success_threshold
         THEN [b EXCEPT !.state = CLOSED, !.failure_count = 0, !.success_count = 0]
         ELSE [b EXCEPT !.success_count = n]
    ELSE IF b.state = CLOSED
    THEN [b EXCEPT !.failure_count = 0]
    ELSE b

OnSuccessKeepsFailures(b) ==
    IF b.state = HALF_OPEN
    THEN LET n == b.success_count + 1 IN
         IF n >= success_threshold
         THEN [b EXCEPT !.state = CLOSED, !.success_count = 0]
         ELSE [b EXCEPT !.success_count = n]
    ELSE IF b.state = CLOSED
    THEN [b EXCEPT !.failure_count = 0]
    ELSE b

OnSuccessKeepCount(b) ==
    IF b.state = HALF_OPEN
    THEN LET n == b.success_count + 1 IN
         IF n >= success_threshold
         THEN [b EXCEPT !.state = CLOSED, !.failure_count = 0, !.success_count = 0]
         ELSE [b EXCEPT !.success_count = n]
    ELSE b

OnSuccessLate(b) ==
    IF b.state = HALF_OPEN
    THEN LET n == b.success_count + 1 IN
         IF n > success_threshold
         THEN [b EXCEPT !.state = CLOSED, !.failure_count = 0, !.success_count = 0]
         ELSE [b EXCEPT !.success_count = n]
    ELSE IF b.state = CLOSED
    THEN [b EXCEPT !.failure_count = 0]
    ELSE b

_on_success(b) ==
    IF b.state = HALF_OPEN
    THEN LET n == b.success_count + 1 IN
         IF n >= success_threshold
         THEN [b EXCEPT !.state = CLOSED, !.failure_count = 0, !.success_count = 0]
         ELSE [b EXCEPT !.success_count = n]
    ELSE IF b.state = CLOSED
    THEN [b EXCEPT !.failure_count = 0]
    ELSE b

OnFailureKeepsSuccesses(b, t) ==
    LET c == [b EXCEPT !.failure_count = b.failure_count + 1,
                       !.last_failure_time = t] IN
    IF c.state = HALF_OPEN
    THEN [c EXCEPT !.state = OPEN]
    ELSE IF c.state = CLOSED /\ c.failure_count >= failure_threshold
    THEN [c EXCEPT !.state = OPEN]
    ELSE c

OnFailureLate(b, t) ==
    LET c == [b EXCEPT !.failure_count = b.failure_count + 1,
                       !.last_failure_time = t] IN
    IF c.state = HALF_OPEN
    THEN [c EXCEPT !.state = OPEN, !.success_count = 0]
    ELSE IF c.state = CLOSED /\ c.failure_count > failure_threshold
    THEN [c EXCEPT !.state = OPEN]
    ELSE c

OnFailureLenient(b, t) ==
    LET c == [b EXCEPT !.failure_count = b.failure_count + 1,
                       !.last_failure_time = t] IN
    IF c.state = HALF_OPEN /\ c.success_count = 0
    THEN [c EXCEPT !.state = OPEN, !.success_count = 0]
    ELSE IF c.state = CLOSED /\ c.failure_count >= failure_threshold
    THEN [c EXCEPT !.state = OPEN]
    ELSE c

_on_failure(b, t) ==
    LET c == [b EXCEPT !.failure_count = b.failure_count + 1,
                       !.last_failure_time = t] IN
    IF c.state = HALF_OPEN
    THEN [c EXCEPT !.state = OPEN, !.success_count = 0]
    ELSE IF c.state = CLOSED /\ c.failure_count >= failure_threshold
    THEN [c EXCEPT !.state = OPEN]
    ELSE c

(* call, lines 113-120: what the caller gets once the operation has run.   *)
InvokedResultMasked(func) ==
    IF func.kind = "raise"
    THEN [kind |-> "raise", val |-> CircuitBreakerOpen(service_name)]
    ELSE func

InvokedResult(func) == func

(* The breaker after reset().                                              *)
ResetKeepsTime(b) ==
    [b EXCEPT !.state = CLOSED, !.failure_count = 0, !.success_count = 0]

ResetBreaker(b) ==
    [b EXCEPT !.state = CLOSED, !.failure_count = 0, !.success_count = 0,
              !.last_failure_time = 0]

----------------------------------------------------------------------------
(* RateLimiter                                                             *)

Actors == {"alice", "bob"}

(* check, line 21: window_start = now - 60.0                               *)
WINDOW == 60

WindowStart(t) == t - WINDOW

(* check, lines 24-25: popleft while the oldest timestamp is stale.        *)
RECURSIVE TrimInclusive(_, _)
TrimInclusive(bucket, window_start) ==
    IF bucket # <<>> /\ Head(bucket) <= window_start
    THEN TrimInclusive(Tail(bucket), window_start)
    ELSE bucket

TrimFromBack(bucket, window_start) ==
    IF bucket # <<>> /\ Head(bucket) < window_start
    THEN SubSeq(bucket, 1, Len(bucket) - 1)
    ELSE bucket

TrimAll(bucket, window_start) ==
    IF bucket # <<>> /\ Head(bucket) < window_start
    THEN <<>>
    ELSE bucket

RECURSIVE Trim(_, _)
Trim(bucket, window_start) ==
    IF bucket # <<>> /\ Head(bucket) < window_start
    THEN Trim(Tail(bucket), window_start)
    ELSE bucket

(* check, line 27: the bucket is full.                                     *)
ExceededOff(bucket) == Len(bucket) > max_per_minute

Exceeded(bucket) == Len(bucket) >= max_per_minute

(* check(actor) at time t on the actor's bucket: the verdict and the       *)
(* bucket it leaves.  The trim is done in place, so it stays when the      *)
(* check is rejected.                                                      *)
CheckBucketCounting(bucket, t) ==
    LET trimmed == Trim(bucket, WindowStart(t)) IN
    IF Exceeded(trimmed)
    THEN [ok |-> FALSE, bucket |-> Append(trimmed, t)]
    ELSE [ok |-> TRUE, bucket |-> Append(trimmed, t)]

CheckBucket(bucket, t) ==
    LET trimmed == Trim(bucket, WindowStart(t)) IN
    IF Exceeded(trimmed)
    THEN [ok |-> FALSE, bucket |-> trimmed]
    ELSE [ok |-> TRUE, bucket |-> Append(trimmed, t)]

BucketsAfterShared(bs, actor, bucket) == [a \in DOMAIN bs |-> bucket]

(* check, line 22: self._buckets[actor] is the one bucket a check works    *)
(* on; bs with that bucket as the check left it.                           *)
BucketsAfter(bs, actor, bucket) == [bs EXCEPT ![actor] = bucket]

NoCheck == [op |-> "init", actor |-> "none", t |-> 0, ok |-> TRUE, pre |-> <<>>,
            prior |-> 0]

(* The limiter's variables while only the breaker is exercised.            *)
LimiterIdle ==
    /\ max_per_minute = 1
    /\ buckets = [a \in Actors |-> <<>>]
    /\ admitted = [a \in Actors |-> <<>>]
    /\ attempts = [a \in Actors |-> <<>>]
    /\ rl_last = NoCheck

----------------------------------------------------------------------------
(* SimpleCache                                                             *)

Keys == {"k1", "k2"}
CacheValues == {"v1", "v2"}

(* What get returns for a miss.                                            *)
None == "None"

(* The ttl argument of set: omitted, or a number of seconds.               *)
TtlArgs == {[given |-> FALSE, ttl |-> 0]} \cup [given : {TRUE}, ttl : 0..MaxTtl]

(* CacheEntry(value, ttl) built at time t.                                 *)
CacheEntry(value, ttl, t) == [value |-> value, expiry |-> t + ttl]

IsExpiredInclusive(entry, t) == t >= entry.expiry

is_expired(entry, t) == t > entry.expiry

(* set, lines 65-66: the default applies when ttl is None.                 *)
EffectiveTtlFalsy(arg) ==
    IF ~arg.given \/ arg.ttl = 0 THEN default_ttl ELSE arg.ttl

EffectiveTtl(arg) ==
    IF ~arg.given THEN default_ttl ELSE arg.ttl

(* The dict d without key, and with key bound to entry.                    *)
Without(d, key) == [k \in DOMAIN d \ {key} |-> d[k]]
With(d, key, entry) == [k \in DOMAIN d \cup {key} |-> IF k = key THEN entry ELSE d[k]]

EmptyDict == [k \in {} |-> None]

(* get(key) at time t: what it returns and the dict it leaves.             *)
CacheGetSweeping(d, key, t) ==
    IF key \notin DOMAIN d
    THEN [ret |-> None, cache |-> d]
    ELSE IF is_expired(d[key], t)
    THEN [ret |-> None,
          cache |-> [k \in {j \in DOMAIN d : ~is_expired(d[j], t)} |-> d[k]]]
    ELSE [ret |-> d[key].value, cache |-> d]

CacheGet(d, key, t) ==
    IF key \notin DOMAIN d
    THEN [ret |-> None, cache |-> d]
    ELSE IF is_expired(d[key], t)
    THEN [ret |-> None, cache |-> Without(d, key)]
    ELSE [ret |-> d[key].value, cache |-> d]

(* set(key, value, ttl) at time t.                                         *)
CacheSet(d, key, value, arg, t) ==
    With(d, key, CacheEntry(value, EffectiveTtl(arg), t))

CacheDeleteAll(d, key) == EmptyDict

(* delete(key): pop with a default, so a missing key is no error.          *)
CacheDelete(d, key) == Without(d, key)

(* cleanup_expired() at time t: the count it returns, the dict it leaves.  *)
CleanupExpiredCountsAll(d, t) ==
    LET expired_keys == {k \in DOMAIN d : is_expired(d[k], t)} IN
    [ret |-> Cardinality(DOMAIN d),
     cache |-> [k \in DOMAIN d \ expired_keys |-> d[k]]]

CleanupExpired(d, t) ==
    LET expired_keys == {k \in DOMAIN d : is_expired(d[k], t)} IN
    [ret |-> Cardinality(expired_keys),
     cache |-> [k \in DOMAIN d \ expired_keys |-> d[k]]]

(* size()                                                                  *)
size(d) == Cardinality(DOMAIN d)

(* Nothing kept for a key.                                                 *)
NotStored == [value |-> None, expiry |-> 0, present |-> FALSE]

NoCacheOp ==
    [op |-> "init", key |-> "none", value |-> None,
     arg |-> [given |-> FALSE, ttl |-> 0], t |-> 0, pre |-> EmptyDict,
     was |-> NotStored, ret |-> None]

(* The cache's variables while another component is exercised.             *)
CacheIdle ==
    /\ default_ttl = 1
    /\ cache = EmptyDict
    /\ stored = [k \in Keys |-> NotStored]
    /\ c_last = NoCacheOp

----------------------------------------------------------------------------
(* MetricsCollector                                                        *)

Ops == {"list_workflows", "create_workflow"}

(* The dicts are defaultdicts: an operation never recorded reads as 0 or   *)
(* as an empty deque, so each is a function on all of Ops.                 *)
OpOrder == <<"list_workflows", "create_workflow">>

(* The operation argument of the getters: None, or an operation name.      *)
OpArgs == Ops \cup {None}

Latencies == {1000, 3000}

window_seconds == 300
REQUEST_TIMES_MAXLEN == 1000
LATENCY_SAMPLES_MAXLEN == 100
RECENT_CHANGES == 5

Statuses == {"healthy", "degraded", "unhealthy"}

Transitions ==
    {[service |-> "n8n", old_state |-> CLOSED, new_state |-> OPEN],
     [service |-> "n8n", old_state |-> OPEN, new_state |-> HALF_OPEN]}

DequeAppendDropsNewest(d, x, maxlen) ==
    IF Len(d) < maxlen THEN Append(d, x) ELSE d

(* deque(maxlen=...).append: a full deque drops its oldest element.        *)
DequeAppend(d, x, maxlen) ==
    IF Len(d) < maxlen THEN Append(d, x) ELSE Append(Tail(d), x)

RECURSIVE SumOver(_, _)
SumOver(f, S) ==
    IF S = {} THEN 0
    ELSE LET x == CHOOSE y \in S : TRUE IN f[x] + SumOver(f, S \ {x})

RECURSIVE SumSeq(_)
SumSeq(s) == IF s = <<>> THEN 0 ELSE Head(s) + SumSeq(Tail(s))

RECURSIVE Repeat(_, _)
Repeat(x, n) == IF n = 0 THEN <<>> ELSE Append(Repeat(x, n - 1), x)

(* A float result a/b, kept as the pair; 0.0 is 0/1.                       *)
Zero == [num |-> 0, den |-> 1]

(* record_request, lines 87-89: the two counters.                          *)
RecordCountsErrorOnly(rc, ec, operation, error) ==
    [requests |-> IF error THEN rc ELSE [rc EXCEPT ![operation] = @ + 1],
     errors |-> IF error THEN [ec EXCEPT ![operation] = @ + 1] ELSE ec]

RecordCounts(rc, ec, operation, error) ==
    [requests |-> [rc EXCEPT ![operation] = @ + 1],
     errors |-> IF error THEN [ec EXCEPT ![operation] = @ + 1] ELSE ec]

(* The samples a latency getter works on: those of one operation, or of    *)
(* all operations one after the other.                                     *)
Samples(ls, operation) ==
    IF operation # None THEN ls[operation] ELSE ls[OpOrder[1]] \o ls[OpOrder[2]]

(* get_request_rate at time t.                                             *)
RequestRate(rt, operation, t) ==
    LET cutoff == t - window_seconds
        recent(times) == Cardinality({i \in DOMAIN times : times[i] >= cutoff})
    IN  [num |-> IF operation # None
                 THEN recent(rt[operation])
                 ELSE recent(rt[OpOrder[1]]) + recent(rt[OpOrder[2]]),
         den |-> window_seconds]

(* get_error_rate                                                          *)
ErrorRate(rc, ec, operation) ==
    LET total == IF operation # None THEN rc[operation] ELSE SumOver(rc, Ops)
        errors == IF operation # None THEN ec[operation] ELSE SumOver(ec, Ops)
    IN  IF total > 0 THEN [num |-> errors, den |-> total] ELSE Zero

(* get_average_latency                                                     *)
AverageLatency(ls, operation) ==
    LET samples == Samples(ls, operation) IN
    IF samples # <<>> THEN [num |-> SumSeq(samples), den |-> Len(samples)] ELSE Zero

(* int(len(sorted_samples) * 0.95)                                         *)
P95IndexNearestRank(n) == ((n * 95 + 99) \div 100) - 1

P95Index(n) == (n * 95) \div 100

(* get_p95_latency; Python indexes from 0.                                 *)
P95Latency(ls, operation) ==
    LET samples == Samples(ls, operation) IN
    IF samples = <<>> THEN 0
    ELSE LET sorted_samples == SortSeq(samples, LAMBDA a, b : a < b)
         IN  sorted_samples[P95Index(Len(sorted_samples)) + 1]

(* get_cache_hit_rate                                                      *)
CacheHitRate(hits, misses) ==
    LET total == hits + misses IN
    IF total > 0 THEN [num |-> hits, den |-> total] ELSE Zero

(* check_health, check 1: error_rate < 0.1                                 *)
ErrorRateStatusInclusive(rate) ==
    IF 10 * rate.num <= rate.den THEN "healthy" ELSE "unhealthy"

ErrorRateStatus(rate) ==
    IF 10 * rate.num < rate.den THEN "healthy" ELSE "unhealthy"

(* check_health, check 3: avg_latency < 1000, < 3000                       *)
LatencyStatusInclusive(avg) ==
    IF avg.num <= 1000 * avg.den THEN "healthy"
    ELSE IF avg.num <= 3000 * avg.den THEN "degraded"
    ELSE "unhealthy"

LatencyStatus(avg) ==
    IF avg.num < 1000 * avg.den THEN "healthy"
    ELSE IF avg.num < 3000 * avg.den THEN "degraded"
    ELSE "unhealthy"

(* check_health, check 4: evaluated with more than 10 cache requests.      *)
CacheStatus(hits, misses) ==
    LET rate == CacheHitRate(hits, misses) IN
    IF hits + misses > 10
    THEN IF 2 * rate.num > rate.den THEN "healthy" ELSE "degraded"
    ELSE "healthy"

OverallStatusDegradedFirst(statuses) ==
    IF "degraded" \in statuses THEN "degraded"
    ELSE IF "unhealthy" \in statuses THEN "unhealthy"
    ELSE "healthy"

OverallStatus(statuses) ==
    IF "unhealthy" \in statuses THEN "unhealthy"
    ELSE IF "degraded" \in statuses THEN "degraded"
    ELSE "healthy"

(* check_health at time t.                                                 *)
CheckHealth(rc, ec, rt, ls, hits, misses, t) ==
    LET checks == [error_rate |-> ErrorRateStatus(ErrorRate(rc, ec, None)),
                   request_rate |-> "healthy",
                   latency |-> LatencyStatus(AverageLatency(ls, None)),
                   cache |-> CacheStatus(hits, misses)]
    IN  [status |-> OverallStatus({checks.error_rate, checks.request_rate,
                                   checks.latency, checks.cache}),
         checks |-> checks]

(* _circuit_breaker_state_changes[-5:]                                     *)
RecentChanges(log) ==
    IF Len(log) <= RECENT_CHANGES THEN log
    ELSE SubSeq(log, Len(log) - RECENT_CHANGES + 1, Len(log))

(* The parts of get_summary's result that depend on the transition log.    *)
Summary(rc, ec, log) ==
    [requests_total |-> SumOver(rc, Ops),
     errors_total |-> SumOver(ec, Ops),
     state_changes |-> Len(log),
     recent_changes |-> RecentChanges(log)]

(* The k-th latency of the series fed to the collector: a ramp upwards     *)
(* from base, or downwards to base.                                        *)
FeedLatency(f, k) ==
    LET i == (k - 1) % LATENCY_SAMPLES_MAXLEN IN
    IF f.up THEN f.base + i ELSE f.base + (LATENCY_SAMPLES_MAXLEN - 1) - i

NoFeed == [up |-> TRUE, base |-> 1]

NoMetricsOp == [op |-> "init", operation |-> None, t |-> 0, ret |-> 0]

(* MetricsCollector() constructed at time t, nothing recorded.             *)
FreshCollector(t) ==
    /\ request_counts = [o \in Ops |-> 0]
    /\ error_counts = [o \in Ops |-> 0]
    /\ cache_hits = 0
    /\ cache_misses = 0
    /\ request_times = [o \in Ops |-> <<>>]
    /\ latency_samples = [o \in Ops |-> <<>>]
    /\ state_changes = <<>>
    /\ start_time = t
    /\ lock = "free"
    /\ m_pc = "idle"
    /\ m_last = NoMetricsOp
    /\ recorded = 0

Threads == {"t1", "t2"}

(* The recording calls a thread can make.                                  *)
RecordingCalls ==
    [kind : {"record_request"}, operation : Ops, latency_ms : {FastLatency},
     error : BOOLEAN]
        \cup [kind : {"record_cache_hit", "record_cache_miss"}, operation : {None},
              latency_ms : {0}, error : {FALSE}]

NoCall == [kind |-> "none", operation |-> None, latency_ms |-> 0, error |-> FALSE]

NoneDone ==
    [requests |-> [o \in Ops |-> 0], errors |-> [o \in Ops |-> 0],
     hits |-> 0, misses |-> 0]

(* No thread is inside the collector.                                      *)
ThreadsIdle ==
    /\ th_pc = [t \in Threads |-> "idle"]
    /\ th_call = [t \in Threads |-> NoCall]
    /\ th_reg = [t \in Threads |-> 0]
    /\ th_calls = [t \in Threads |-> 0]
    /\ done_calls = NoneDone

(* The collector's variables while another component is exercised.         *)
MetricsIdle ==
    /\ FreshCollector(0)
    /\ feed = NoFeed
    /\ ThreadsIdle

----------------------------------------------------------------------------
(* CircuitBreaker.__init__ with a valid configuration.                     *)

InitBreaker ==
    /\ RaceIdle
    /\ OverlapIdle
    /\ ConstructIdle
    /\ service_name \in ServiceNames
    /\ failure_threshold \in 1..MaxThreshold
    /\ recovery_timeout \in 1..MaxTimeout
    /\ success_threshold \in 1..MaxThreshold
    /\ cb = NewBreaker
    /\ now = 1
    /\ last = NoOperation
    /\ run = 0
    /\ streak = 0
    /\ maxStreak = 0
    /\ hoSucc = 0
    /\ failed_since = FALSE
    /\ LimiterIdle
    /\ CacheIdle
    /\ MetricsIdle

(* cb.call(func): func takes dur seconds to return or raise.               *)
call(func, dur) ==
    LET g == Gate(cb, now)
        rejected == g.state = OPEN
        t1 == now + dur
        failed == ~rejected /\ func.kind = "raise"
        succeeded == ~rejected /\ func.kind = "return"
        entered == cb.state = OPEN /\ g.state = HALF_OPEN
    IN
    /\ now + dur <= MaxTime
    /\ cb' = IF rejected THEN g
             ELSE IF succeeded THEN _on_success(g)
             ELSE _on_failure(g, t1)
    /\ now' = IF rejected THEN now ELSE t1
    /\ last' = [op |-> "call", pre |-> cb, gate |-> g, t0 |-> now,
                t1 |-> IF rejected THEN now ELSE t1,
                func |-> func, invoked |-> ~rejected,
                ret |-> IF rejected
                        THEN [kind |-> "raise", val |-> CircuitBreakerOpen(service_name)]
                        ELSE InvokedResult(func),
                reset_from |-> IF last.op = "reset" THEN last.reset_from ELSE "none"]
    /\ run' = IF ~failed THEN -1
              ELSE IF ClosedAtZero(cb) THEN 1
              ELSE IF run = -1 THEN -1
              ELSE Min(run + 1, failure_threshold + 1)
    /\ streak' = IF failed THEN Min(streak + 1, failure_threshold)
                 ELSE IF succeeded THEN 0 ELSE streak
    /\ maxStreak' = IF failed /\ streak' > maxStreak THEN streak' ELSE maxStreak
    /\ hoSucc' = IF succeeded /\ g.state = HALF_OPEN
                 THEN (IF entered THEN 0 ELSE hoSucc) + 1
                 ELSE 0
    /\ failed_since' = (failed_since \/ failed)
    /\ UNCHANGED <<service_name, failure_threshold, recovery_timeout, success_threshold>>
    /\ UNCHANGED notBreaker

(* cb.reset()                                                              *)
reset ==
    /\ cb' = ResetBreaker(cb)
    /\ last' = [op |-> "reset", pre |-> cb, gate |-> cb, t0 |-> now, t1 |-> now,
                func |-> NoneYet, invoked |-> FALSE, ret |-> NoneYet,
                reset_from |-> cb.state]
    /\ run' = -1
    /\ hoSucc' = 0
    /\ failed_since' = FALSE
    /\ UNCHANGED <<service_name, failure_threshold, recovery_timeout, success_threshold,
                   now, streak, maxStreak>>
    /\ UNCHANGED notBreaker

(* A second passes between two operations.                                 *)
Tick ==
    /\ now < MaxTime
    /\ now' = now + 1
    /\ UNCHANGED <<cbVars, notBreaker>>

NextBreaker ==
    \/ \E func \in Funcs, dur \in 0..MaxDuration : call(func, dur)
    \/ reset
    \/ Tick

SpecBreaker == InitBreaker /\ [][NextBreaker]_vars

(* The dict get_stats() returns.                                           *)
GetStatsRaw(b) ==
    [service_name |-> service_name,
     state |-> b.state,
     failure_count |-> b.failure_count,
     success_count |-> b.success_count,
     failure_threshold |-> failure_threshold,
     recovery_timeout |-> recovery_timeout,
     success_threshold |-> success_threshold,
     last_failure_time |-> [given |-> TRUE, at |-> b.last_failure_time]]

GetStats(b) ==
    [service_name |-> service_name,
     state |-> b.state,
     failure_count |-> b.failure_count,
     success_count |-> b.success_count,
     failure_threshold |-> failure_threshold,
     recovery_timeout |-> recovery_timeout,
     success_threshold |-> success_threshold,
     last_failure_time |-> IF b.last_failure_time > 0
                           THEN [given |-> TRUE, at |-> b.last_failure_time]
                           ELSE NoTime]

(* cb.get_stats()                                                          *)
get_stats ==
    /\ cb' = cb
    /\ stats' = [op |-> "get_stats", t |-> now, pre |-> cb, post |-> cb',
                 failed |-> failed_since, ret |-> GetStats(cb)]
    /\ UNCHANGED <<service_name, failure_threshold, recovery_timeout, success_threshold,
                   last, run, streak, maxStreak, hoSucc, failed_since, now>>
    /\ UNCHANGED <<rlVars, cacheVars, metricsVars, threadVars, ctorVars, overlapVars,
                   raceVars>>

(* The breaker with get_stats() among its operations, over a shorter span. *)
NextStats ==
    \/ \E func \in Funcs : call(func, 0)
    \/ reset
    \/ get_stats
    \/ now < MaxStatsTime /\ Tick

SpecStats == InitBreaker /\ [][NextStats]_vars

----------------------------------------------------------------------------
(* The breaker's variables while only the limiter is exercised.            *)
BreakerIdle ==
    /\ service_name = "n8n"
    /\ failure_threshold = 1
    /\ recovery_timeout = 1
    /\ success_threshold = 1
    /\ cb = NewBreaker
    /\ last = NoOperation
    /\ run = 0
    /\ streak = 0
    /\ maxStreak = 0
    /\ hoSucc = 0
    /\ failed_since = FALSE

(* RateLimiter.__init__ with a valid max_per_minute.                       *)
InitLimiter ==
    /\ RaceIdle
    /\ OverlapIdle
    /\ ConstructIdle
    /\ max_per_minute \in 1..MaxLimit
    /\ buckets = [a \in Actors |-> <<>>]
    /\ admitted = [a \in Actors |-> <<>>]
    /\ attempts = [a \in Actors |-> <<>>]
    /\ rl_last = NoCheck
    /\ now = 1
    /\ BreakerIdle
    /\ CacheIdle
    /\ MetricsIdle

(* Admitted checks of the actor whose time lies in the 60 seconds up to t. *)
InWindow(actor, t) ==
    Cardinality({i \in DOMAIN admitted[actor] :
                    admitted[actor][i] >= t - WINDOW /\ admitted[actor][i] <= t})

(* limiter.check(actor)                                                    *)
check(actor) ==
    LET r == CheckBucket(buckets[actor], now) IN
    /\ buckets' = BucketsAfter(buckets, actor, r.bucket)
    /\ admitted' = IF r.ok THEN [admitted EXCEPT ![actor] = Append(@, now)]
                   ELSE admitted
    /\ attempts' = IF Len(attempts[actor]) <= max_per_minute
                   THEN [attempts EXCEPT ![actor] = Append(@, [t |-> now, ok |-> r.ok])]
                   ELSE attempts
    /\ rl_last' = [op |-> "check", actor |-> actor, t |-> now, ok |-> r.ok,
                   pre |-> buckets[actor], prior |-> InWindow(actor, now)]
    /\ UNCHANGED <<max_per_minute, now, notLimiter>>

(* The methods class RateLimiter defines.                                  *)
RateLimiterMethods == {"__init__", "check"}

(* limiter.reset(): RateLimiter defines no reset, so looking the attribute *)
(* up raises AttributeError and the limiter stays as it was.               *)
limiter_reset ==
    /\ "reset" \notin RateLimiterMethods
    /\ rl_last' = [op |-> "reset", actor |-> "none", t |-> now, ok |-> FALSE,
                   pre |-> <<>>, prior |-> 0]
    /\ UNCHANGED <<max_per_minute, buckets, admitted, attempts, now, notLimiter>>

(* The clock moves on between two checks.                                  *)
Advance ==
    /\ now + TickUnit <= MaxClock
    /\ now' = now + TickUnit
    /\ UNCHANGED <<rlVars, notLimiter>>

NextLimiter ==
    \/ \E actor \in Actors : check(actor)
    \/ limiter_reset
    \/ Advance

SpecLimiter == InitLimiter /\ [][NextLimiter]_vars

----------------------------------------------------------------------------
(* SimpleCache(default_ttl)                                                *)
InitCache ==
    /\ RaceIdle
    /\ OverlapIdle
    /\ ConstructIdle
    /\ default_ttl \in 1..MaxTtl
    /\ cache = EmptyDict
    /\ stored = [k \in Keys |-> NotStored]
    /\ c_last = NoCacheOp
    /\ now = 1
    /\ BreakerIdle
    /\ LimiterIdle
    /\ MetricsIdle

(* What is kept of an entry once its expiry has passed and it was looked   *)
(* at: nothing.                                                            *)
Lapse(s, t) == IF s.present /\ t > s.expiry THEN NotStored ELSE s

(* cache.get(key)                                                          *)
get(key) ==
    LET r == CacheGet(cache, key, now) IN
    /\ cache' = r.cache
    /\ stored' = [stored EXCEPT ![key] = Lapse(@, now)]
    /\ c_last' = [op |-> "get", key |-> key, value |-> None,
                  arg |-> [given |-> FALSE, ttl |-> 0], t |-> now, pre |-> cache,
                  was |-> stored[key], ret |-> r.ret]
    /\ UNCHANGED <<default_ttl, now, notCache>>

(* cache.set(key, value, ttl)                                              *)
set(key, value, arg) ==
    /\ cache' = CacheSet(cache, key, value, arg, now)
    /\ stored' = [stored EXCEPT ![key] =
                     [value |-> value,
                      expiry |-> now + (IF arg.given THEN arg.ttl ELSE default_ttl),
                      present |-> TRUE]]
    /\ c_last' = [op |-> "set", key |-> key, value |-> value, arg |-> arg, t |-> now,
                  pre |-> cache, was |-> stored[key], ret |-> None]
    /\ UNCHANGED <<default_ttl, now, notCache>>

(* cache.delete(key)                                                       *)
delete(key) ==
    /\ cache' = CacheDelete(cache, key)
    /\ stored' = [stored EXCEPT ![key] = NotStored]
    /\ c_last' = [op |-> "delete", key |-> key, value |-> None,
                  arg |-> [given |-> FALSE, ttl |-> 0], t |-> now, pre |-> cache,
                  was |-> stored[key], ret |-> None]
    /\ UNCHANGED <<default_ttl, now, notCache>>

(* cache.clear()                                                           *)
clear ==
    /\ cache' = EmptyDict
    /\ stored' = [k \in Keys |-> NotStored]
    /\ c_last' = [op |-> "clear", key |-> "none", value |-> None,
                  arg |-> [given |-> FALSE, ttl |-> 0], t |-> now, pre |-> cache,
                  was |-> NotStored, ret |-> None]
    /\ UNCHANGED <<default_ttl, now, notCache>>

(* cache.cleanup_expired()                                                 *)
cleanup_expired ==
    LET r == CleanupExpired(cache, now) IN
    /\ cache' = r.cache
    /\ stored' = [k \in Keys |-> Lapse(stored[k], now)]
    /\ c_last' = [op |-> "cleanup_expired", key |-> "none", value |-> None,
                  arg |-> [given |-> FALSE, ttl |-> 0], t |-> now, pre |-> cache,
                  was |-> NotStored, ret |-> r.ret]
    /\ UNCHANGED <<default_ttl, now, notCache>>

(* Time passes; the cache has no timer, so nothing else happens.           *)
Elapse ==
    /\ now < MaxCacheTime
    /\ now' = now + 1
    /\ UNCHANGED <<cacheVars, notCache>>

NextCache ==
    \/ \E key \in Keys : get(key)
    \/ \E key \in Keys, value \in CacheValues, arg \in TtlArgs : set(key, value, arg)
    \/ \E key \in Keys : delete(key)
    \/ clear
    \/ cleanup_expired
    \/ Elapse

SpecCache == InitCache /\ [][NextCache]_vars

----------------------------------------------------------------------------
(* The collector as one thread uses it.  The first state is a collector    *)
(* constructed at time 1 on which 0, Preload - 1 or Preload successful     *)
(* requests of FastLatency ms have been recorded for one operation in the  *)
(* same second, or on which CachePreload - 1 cache hits and CachePreload    *)
(* cache misses have been recorded.                                        *)
PreloadSizes == {0, Preload - 1, Preload}

Presets ==
    [requests : PreloadSizes, hits : {0}, misses : {0}]
        \cup {[requests |-> 0, hits |-> CachePreload - 1, misses |-> CachePreload]}

InitMetrics ==
    /\ RaceIdle
    /\ OverlapIdle
    /\ ConstructIdle
    /\ now = 1
    /\ \E p \in Presets :
          /\ request_counts = [o \in Ops |-> IF o = OpOrder[1] THEN p.requests ELSE 0]
          /\ request_times =
                [o \in Ops |-> IF o = OpOrder[1] THEN Repeat(1, p.requests) ELSE <<>>]
          /\ latency_samples =
                [o \in Ops |-> IF o = OpOrder[1] THEN Repeat(FastLatency, p.requests)
                                                 ELSE <<>>]
          /\ cache_hits = p.hits
          /\ cache_misses = p.misses
    /\ error_counts = [o \in Ops |-> 0]
    /\ state_changes = <<>>
    /\ start_time = 1
    /\ lock = "free"
    /\ m_pc = "idle"
    /\ m_last = NoMetricsOp
    /\ recorded = 0
    /\ feed = NoFeed
    /\ ThreadsIdle
    /\ BreakerIdle
    /\ LimiterIdle
    /\ CacheIdle

MetricsOp(op, operation, ret) ==
    [op |-> op, operation |-> operation, t |-> now, ret |-> ret]

(* "with self._lock" entered from outside the collector: the thread is in  *)
(* no other collector method and the lock is free.                         *)
Callable == m_pc = "idle" /\ lock = "free"

(* record_request(operation, latency_ms, error)                            *)
record_request(operation, latency_ms, error) ==
    /\ Callable
    /\ LET c == RecordCounts(request_counts, error_counts, operation, error) IN
          /\ request_counts' = c.requests
          /\ error_counts' = c.errors
    /\ request_times' =
          [request_times EXCEPT ![operation] = DequeAppend(@, now, REQUEST_TIMES_MAXLEN)]
    /\ latency_samples' =
          [latency_samples EXCEPT
              ![operation] = DequeAppend(@, latency_ms, LATENCY_SAMPLES_MAXLEN)]
    /\ recorded' = recorded + 1
    /\ m_last' = MetricsOp("record_request", operation, 0)
    /\ UNCHANGED <<cache_hits, cache_misses, state_changes, start_time, lock, m_pc, feed>>
    /\ UNCHANGED <<now, notMetrics>>

record_cache_hit ==
    /\ Callable
    /\ cache_hits' = cache_hits + 1
    /\ recorded' = recorded + 1
    /\ m_last' = MetricsOp("record_cache_hit", None, 0)
    /\ UNCHANGED <<request_counts, error_counts, cache_misses, request_times,
                   latency_samples, state_changes, start_time, lock, m_pc, feed>>
    /\ UNCHANGED <<now, notMetrics>>

record_cache_miss ==
    /\ Callable
    /\ cache_misses' = cache_misses + 1
    /\ recorded' = recorded + 1
    /\ m_last' = MetricsOp("record_cache_miss", None, 0)
    /\ UNCHANGED <<request_counts, error_counts, cache_hits, request_times,
                   latency_samples, state_changes, start_time, lock, m_pc, feed>>
    /\ UNCHANGED <<now, notMetrics>>

record_circuit_breaker_state_change(service, old_state, new_state) ==
    /\ Callable
    /\ state_changes' =
          Append(state_changes,
                 [timestamp |-> now, service |-> service,
                  old_state |-> old_state, new_state |-> new_state])
    /\ recorded' = recorded + 1
    /\ m_last' = MetricsOp("record_circuit_breaker_state_change", None, 0)
    /\ UNCHANGED <<request_counts, error_counts, cache_hits, cache_misses, request_times,
                   latency_samples, start_time, lock, m_pc, feed>>
    /\ UNCHANGED <<now, notMetrics>>

(* What a getter leaves alone: everything but its result.                  *)
Reads(op, operation, ret) ==
    /\ m_last' = MetricsOp(op, operation, ret)
    /\ UNCHANGED <<request_counts, error_counts, cache_hits, cache_misses, request_times,
                   latency_samples, state_changes, start_time, lock, m_pc, recorded, feed>>
    /\ UNCHANGED <<now, notMetrics>>

Callers == {"client", "get_summary"}

(* get_request_rate(operation).  It takes the lock itself, so it runs only *)
(* while the lock is free, whoever calls it.  Called by a client it        *)
(* returns the rate.  Called from inside get_summary (line 255, with no    *)
(* argument) its return lets get_summary go on to build its result and     *)
(* return.                                                                 *)
get_request_rate(caller, operation) ==
    /\ lock = "free"
    /\ IF caller = "client"
       THEN /\ m_pc = "idle"
            /\ Reads("get_request_rate", operation,
                     RequestRate(request_times, operation, now))
       ELSE /\ m_pc = "get_summary"
            /\ operation = None
            /\ m_pc' = "idle"
            /\ m_last' = MetricsOp("get_summary", None,
                                   Summary(request_counts, error_counts, state_changes))
            /\ UNCHANGED <<request_counts, error_counts, cache_hits, cache_misses,
                           request_times, latency_samples, state_changes, start_time,
                           lock, recorded, feed>>
            /\ UNCHANGED <<now, notMetrics>>

get_error_rate(operation) ==
    /\ Callable
    /\ Reads("get_error_rate", operation,
             ErrorRate(request_counts, error_counts, operation))

get_average_latency(operation) ==
    /\ Callable
    /\ Reads("get_average_latency", operation, AverageLatency(latency_samples, operation))

get_p95_latency(operation) ==
    /\ Callable
    /\ Reads("get_p95_latency", operation, P95Latency(latency_samples, operation))

get_cache_hit_rate ==
    /\ Callable
    /\ Reads("get_cache_hit_rate", None, CacheHitRate(cache_hits, cache_misses))

(* get_uptime_seconds() takes no lock.                                     *)
get_uptime_seconds ==
    /\ m_pc = "idle"
    /\ Reads("get_uptime_seconds", None, now - start_time)

(* get_summary(), lines 246-255: it takes the lock, reads the uptime and   *)
(* the request totals, and calls get_request_rate() with the lock held.    *)
get_summary ==
    /\ Callable
    /\ lock' = "held"
    /\ m_pc' = "get_summary"
    /\ m_last' = MetricsOp("get_summary:get_request_rate", None, 0)
    /\ UNCHANGED <<request_counts, error_counts, cache_hits, cache_misses, request_times,
                   latency_samples, state_changes, start_time, recorded, feed>>
    /\ UNCHANGED <<now, notMetrics>>

(* check_health() holds no lock of its own; each getter it calls takes and *)
(* releases the lock.                                                      *)
check_health ==
    /\ Callable
    /\ Reads("check_health", None,
             CheckHealth(request_counts, error_counts, request_times, latency_samples,
                         cache_hits, cache_misses, now))

(* What the collector holds: requests counted, cache requests counted,    *)
(* latency samples and breaker transitions kept.                           *)
Held ==
    [requests |-> SumOver(request_counts, Ops),
     cache |-> cache_hits + cache_misses,
     samples |-> Len(latency_samples[OpOrder[1]]) + Len(latency_samples[OpOrder[2]]),
     changes |-> Len(state_changes)]

MetricsResetKeepsBuffers ==
    /\ Callable
    /\ request_counts' = [o \in Ops |-> 0]
    /\ error_counts' = [o \in Ops |-> 0]
    /\ cache_hits' = 0
    /\ cache_misses' = 0
    /\ state_changes' = <<>>
    /\ start_time' = now
    /\ recorded' = 0
    /\ m_last' = MetricsOp("reset", None, Held)
    /\ UNCHANGED <<request_times, latency_samples, lock, m_pc, feed>>
    /\ UNCHANGED <<now, notMetrics>>

(* MetricsCollector.reset()                                                *)
MetricsReset ==
    /\ Callable
    /\ request_counts' = [o \in Ops |-> 0]
    /\ error_counts' = [o \in Ops |-> 0]
    /\ cache_hits' = 0
    /\ cache_misses' = 0
    /\ request_times' = [o \in Ops |-> <<>>]
    /\ latency_samples' = [o \in Ops |-> <<>>]
    /\ state_changes' = <<>>
    /\ start_time' = now
    /\ recorded' = 0
    /\ m_last' = MetricsOp("reset", None, Held)
    /\ UNCHANGED <<lock, m_pc, feed>>
    /\ UNCHANGED <<now, notMetrics>>

(* Time passes.                                                            *)
Pass ==
    /\ now < MaxMetricsClock
    /\ now' = now + MetricsTick
    /\ UNCHANGED <<metricsVars, notMetrics>>

NextMetrics ==
    \/ /\ recorded < MaxRecorded
       /\ \E operation \in Ops, latency_ms \in Latencies, error \in BOOLEAN :
             record_request(operation, latency_ms, error)
    \/ recorded < MaxRecorded /\ record_cache_hit
    \/ recorded < MaxRecorded /\ record_cache_miss
    \/ /\ recorded < MaxRecorded
       /\ \E tr \in Transitions :
             record_circuit_breaker_state_change(tr.service, tr.old_state, tr.new_state)
    \/ \E caller \in Callers, operation \in OpArgs : get_request_rate(caller, operation)
    \/ \E operation \in OpArgs : get_error_rate(operation)
    \/ \E operation \in OpArgs : get_average_latency(operation)
    \/ \E operation \in OpArgs : get_p95_latency(operation)
    \/ get_cache_hit_rate
    \/ get_uptime_seconds
    \/ get_summary
    \/ check_health
    \/ MetricsReset
    \/ Pass

SpecMetrics == InitMetrics /\ [][NextMetrics]_vars

----------------------------------------------------------------------------
(* The latency buffers under a long series: a fresh collector is fed a     *)
(* ramp of latencies for one operation, and a few for the other, and is    *)
(* asked for the 95th percentile along the way.                            *)
InitLatency ==
    /\ RaceIdle
    /\ OverlapIdle
    /\ ConstructIdle
    /\ now = 1
    /\ FreshCollector(1)
    /\ feed \in [up : BOOLEAN, base : {1, 2}]
    /\ ThreadsIdle
    /\ BreakerIdle
    /\ LimiterIdle
    /\ CacheIdle

FeedCap(operation) == IF operation = OpOrder[1] THEN MaxSamples ELSE MaxOtherSamples

NextLatency ==
    \/ \E operation \in Ops :
          /\ request_counts[operation] < FeedCap(operation)
          /\ record_request(operation,
                            FeedLatency(feed, request_counts[operation] + 1), FALSE)
    \/ \E operation \in OpArgs : get_p95_latency(operation)

SpecLatency == InitLatency /\ [][NextLatency]_vars

----------------------------------------------------------------------------
(* Both buffers under a long series: a fresh collector records one request *)
(* a second for one operation, the k-th at second k with the k-th latency  *)
(* of a ramp, until the timestamp buffer has overflowed.                   *)
InitBuffers ==
    /\ RaceIdle
    /\ OverlapIdle
    /\ ConstructIdle
    /\ now = 1
    /\ FreshCollector(1)
    /\ feed \in [up : BOOLEAN, base : {1}]
    /\ ThreadsIdle
    /\ BreakerIdle
    /\ LimiterIdle
    /\ CacheIdle

(* The next second begins once this second's request is recorded.          *)
BufferTick ==
    /\ \E o \in Ops : request_counts[o] = now
    /\ now < MaxBufferRecords
    /\ now' = now + 1
    /\ UNCHANGED <<metricsVars, notMetrics>>

NextBuffers ==
    \/ \E operation \in Ops :
          /\ request_counts[operation] < now
          /\ \A o \in Ops \ {operation} : request_counts[o] = 0
          /\ record_request(operation,
                            FeedLatency(feed, request_counts[operation] + 1), FALSE)
    \/ BufferTick

SpecBuffers == InitBuffers /\ [][NextBuffers]_vars

----------------------------------------------------------------------------
(* Recording calls made by several threads at once.  Each call is the      *)
(* steps of its method: it takes the lock, loads and stores each counter   *)
(* it increments ("+= 1" is a load, an add and a store), appends to the    *)
(* buffers, and releases the lock on leaving the with block.               *)
InitRecording ==
    /\ RaceIdle
    /\ OverlapIdle
    /\ ConstructIdle
    /\ now = 1
    /\ FreshCollector(1)
    /\ feed = NoFeed
    /\ ThreadsIdle
    /\ BreakerIdle
    /\ LimiterIdle
    /\ CacheIdle

(* threading.Lock.acquire: it succeeds while the lock is free.             *)
AcquirableAlways(l) == TRUE

Acquirable(l) == l = "free"

(* The first step of a call once it holds the lock.                        *)
FirstStep(c) ==
    IF c.kind = "record_request" THEN "load_requests"
    ELSE IF c.kind = "record_cache_hit" THEN "load_hits"
    ELSE "load_misses"

(* A thread calls a recording method.                                      *)
Begin(t, c) ==
    /\ th_pc[t] = "idle"
    /\ th_calls[t] < MaxThreadCalls
    /\ th_calls' = [th_calls EXCEPT ![t] = @ + 1]
    /\ th_call' = [th_call EXCEPT ![t] = c]
    /\ th_pc' = [th_pc EXCEPT ![t] = "acquire"]
    /\ UNCHANGED <<th_reg, done_calls, metricsVars, now, notCollector>>

(* with self._lock:                                                        *)
Acquire(t) ==
    /\ th_pc[t] = "acquire"
    /\ Acquirable(lock)
    /\ lock' = "held"
    /\ th_pc' = [th_pc EXCEPT ![t] = FirstStep(th_call[t])]
    /\ UNCHANGED <<request_counts, error_counts, cache_hits, cache_misses, request_times,
                   latency_samples, state_changes, start_time, m_pc, m_last, recorded,
                   feed>>
    /\ UNCHANGED <<th_call, th_reg, th_calls, done_calls, now, notCollector>>

(* The load of a "+= 1".                                                   *)
Load(t) ==
    LET c == th_call[t] IN
    /\ th_pc[t] \in {"load_requests", "load_errors", "load_hits", "load_misses"}
    /\ th_reg' = [th_reg EXCEPT ![t] =
                     IF th_pc[t] = "load_requests" THEN request_counts[c.operation]
                     ELSE IF th_pc[t] = "load_errors" THEN error_counts[c.operation]
                     ELSE IF th_pc[t] = "load_hits" THEN cache_hits
                     ELSE cache_misses]
    /\ th_pc' = [th_pc EXCEPT ![t] =
                    IF th_pc[t] = "load_requests" THEN "store_requests"
                    ELSE IF th_pc[t] = "load_errors" THEN "store_errors"
                    ELSE IF th_pc[t] = "load_hits" THEN "store_hits"
                    ELSE "store_misses"]
    /\ UNCHANGED <<th_call, th_calls, done_calls, metricsVars, now, notCollector>>

(* The store of a "+= 1".                                                  *)
Store(t) ==
    LET c == th_call[t] IN
    /\ th_pc[t] \in {"store_requests", "store_errors", "store_hits", "store_misses"}
    /\ request_counts' =
          IF th_pc[t] = "store_requests"
          THEN [request_counts EXCEPT ![c.operation] = th_reg[t] + 1]
          ELSE request_counts
    /\ error_counts' =
          IF th_pc[t] = "store_errors"
          THEN [error_counts EXCEPT ![c.operation] = th_reg[t] + 1]
          ELSE error_counts
    /\ cache_hits' = IF th_pc[t] = "store_hits" THEN th_reg[t] + 1 ELSE cache_hits
    /\ cache_misses' = IF th_pc[t] = "store_misses" THEN th_reg[t] + 1 ELSE cache_misses
    /\ th_pc' = [th_pc EXCEPT ![t] =
                    IF th_pc[t] = "store_requests"
                    THEN IF c.error THEN "load_errors" ELSE "append"
                    ELSE IF th_pc[t] = "store_errors" THEN "append"
                    ELSE "release"]
    /\ UNCHANGED <<request_times, latency_samples, state_changes, start_time, lock, m_pc,
                   m_last, recorded, feed>>
    /\ UNCHANGED <<th_call, th_reg, th_calls, done_calls, now, notCollector>>

(* record_request, lines 92-93: the two appends.                           *)
AppendSamples(t) ==
    LET c == th_call[t] IN
    /\ th_pc[t] = "append"
    /\ request_times' =
          [request_times EXCEPT ![c.operation] = DequeAppend(@, now, REQUEST_TIMES_MAXLEN)]
    /\ latency_samples' =
          [latency_samples EXCEPT
              ![c.operation] = DequeAppend(@, c.latency_ms, LATENCY_SAMPLES_MAXLEN)]
    /\ th_pc' = [th_pc EXCEPT ![t] = "release"]
    /\ UNCHANGED <<request_counts, error_counts, cache_hits, cache_misses, state_changes,
                   start_time, lock, m_pc, m_last, recorded, feed>>
    /\ UNCHANGED <<th_call, th_reg, th_calls, done_calls, now, notCollector>>

(* Leaving the with block releases the lock; the call returns.             *)
Release(t) ==
    LET c == th_call[t] IN
    /\ th_pc[t] = "release"
    /\ lock' = "free"
    /\ th_pc' = [th_pc EXCEPT ![t] = "idle"]
    /\ th_call' = [th_call EXCEPT ![t] = NoCall]
    /\ th_reg' = [th_reg EXCEPT ![t] = 0]
    /\ done_calls' =
          IF c.kind = "record_request"
          THEN [done_calls EXCEPT
                   !.requests[c.operation] = @ + 1,
                   !.errors[c.operation] = IF c.error THEN @ + 1 ELSE @]
          ELSE IF c.kind = "record_cache_hit"
          THEN [done_calls EXCEPT !.hits = @ + 1]
          ELSE [done_calls EXCEPT !.misses = @ + 1]
    /\ UNCHANGED <<request_counts, error_counts, cache_hits, cache_misses, request_times,
                   latency_samples, state_changes, start_time, m_pc, m_last, recorded,
                   feed>>
    /\ UNCHANGED <<th_calls, now, notCollector>>

NextRecording ==
    \/ \E t \in Threads, c \in RecordingCalls : Begin(t, c)
    \/ \E t \in Threads : Acquire(t)
    \/ \E t \in Threads : Load(t)
    \/ \E t \in Threads : Store(t)
    \/ \E t \in Threads : AppendSamples(t)
    \/ \E t \in Threads : Release(t)

SpecRecording == InitRecording /\ [][NextRecording]_vars

----------------------------------------------------------------------------
(* Construction.  One constructor call is followed: CircuitBreaker(...) or *)
(* RateLimiter(...) with arguments that may be invalid.  If it yields an   *)
(* instance, the operations of that instance follow.  Until an instance    *)
(* exists the variables of the component hold nothing of the program's.    *)
CtorArgs == (-1)..MaxThreshold

InitConstruct ==
    /\ RaceIdle
    /\ OverlapIdle
    /\ made = "none"
    /\ ctor = NoCtor
    /\ stats = NoStats
    /\ now = 1
    /\ BreakerIdle
    /\ LimiterIdle
    /\ CacheIdle
    /\ MetricsIdle

(* CircuitBreaker(name, ft, rt, st)                                        *)
NewCircuitBreaker(name, ft, rt, st) ==
    LET err == BreakerConfigError(ft, rt, st) IN
    /\ made = "none"
    /\ ctor' = [class |-> "CircuitBreaker", args |-> <<ft, rt, st>>, error |-> err]
    /\ IF err # "none"
       THEN /\ made' = "ValueError"
            /\ UNCHANGED <<service_name, failure_threshold, recovery_timeout,
                           success_threshold, cb>>
       ELSE /\ made' = "CircuitBreaker"
            /\ service_name' = name
            /\ failure_threshold' = ft
            /\ recovery_timeout' = rt
            /\ success_threshold' = st
            /\ cb' = NewBreaker
    /\ UNCHANGED <<last, run, streak, maxStreak, hoSucc, failed_since>>
    /\ UNCHANGED <<rlVars, cacheVars, metricsVars, threadVars, statsVars, overlapVars, raceVars, now>>

(* RateLimiter(n)                                                          *)
NewRateLimiter(n) ==
    LET err == LimiterConfigError(n) IN
    /\ made = "none"
    /\ ctor' = [class |-> "RateLimiter", args |-> <<n>>, error |-> err]
    /\ IF err # "none"
       THEN /\ made' = "ValueError"
            /\ UNCHANGED <<max_per_minute, buckets>>
       ELSE /\ made' = "RateLimiter"
            /\ max_per_minute' = n
            /\ buckets' = [a \in Actors |-> <<>>]
    /\ UNCHANGED <<admitted, attempts, rl_last>>
    /\ UNCHANGED <<cbVars, cacheVars, metricsVars, threadVars, statsVars, overlapVars, raceVars, now>>

NextConstruct ==
    \/ \E name \in ServiceNames, ft \in CtorArgs, rt \in CtorArgs, st \in CtorArgs :
          NewCircuitBreaker(name, ft, rt, st)
    \/ \E n \in CtorArgs : NewRateLimiter(n)
    \/ /\ made = "CircuitBreaker"
       /\ now < MaxCtorTime
       /\ \E func \in Funcs : call(func, 0)
    \/ made = "CircuitBreaker" /\ reset
    \/ made \in {"CircuitBreaker", "RateLimiter"} /\ now < MaxCtorTime /\ Tick
    \/ made = "RateLimiter" /\ \E actor \in Actors : check(actor)

SpecConstruct == InitConstruct /\ [][NextConstruct]_vars

----------------------------------------------------------------------------
(* Overlapping calls.  call() takes no lock, so a second thread may run    *)
(* any of its lines between two lines of the first.  Each call is followed *)
(* line by line up to the wrapped operation; _on_success and _on_failure   *)
(* are taken whole.  The observations of the sequential operations (last   *)
(* and the streak counters) are not kept here.                             *)
notOverlap ==
    <<service_name, failure_threshold, recovery_timeout, success_threshold,
      last, run, streak, maxStreak, hoSucc, failed_since,
      rlVars, cacheVars, metricsVars, threadVars, ctorVars, statsVars, raceVars>>

(* Line 105: the call reads _should_attempt_reset().                       *)
CheckReset(c) ==
    /\ call_pc[c] = "idle"
    /\ call_pc' = [call_pc EXCEPT ![c] =
                      IF _should_attempt_reset(cb, now) THEN "promote" ELSE "gate"]
    /\ completed' = NotCompleted
    /\ UNCHANGED <<cb, promoted, erased, ho_invoked, now, notOverlap>>

(* Line 106: self._state = CircuitState.HALF_OPEN                          *)
SetHalfOpen(c) ==
    /\ call_pc[c] = "promote"
    /\ cb' = [cb EXCEPT !.state = HALF_OPEN]
    /\ promoted' = promoted \cup {c}
    /\ call_pc' = [call_pc EXCEPT ![c] = "zero"]
    /\ ho_invoked' = IF cb.state = HALF_OPEN THEN ho_invoked ELSE 0
    /\ completed' = NotCompleted
    /\ UNCHANGED <<erased, now, notOverlap>>

(* Line 107: self._success_count = 0                                       *)
ZeroSuccessCount(c) ==
    /\ call_pc[c] = "zero"
    /\ cb' = [cb EXCEPT !.success_count = 0]
    /\ erased' = (erased \/ cb.success_count > 0)
    /\ call_pc' = [call_pc EXCEPT ![c] = "gate"]
    /\ completed' = NotCompleted
    /\ UNCHANGED <<promoted, ho_invoked, now, notOverlap>>

(* Lines 110-111: raise CircuitBreakerOpen if the circuit is open, else go *)
(* on to the wrapped operation.                                            *)
BlockIfOpen(c) ==
    /\ call_pc[c] = "gate"
    /\ call_pc' = [call_pc EXCEPT ![c] = IF cb.state = OPEN THEN "idle" ELSE "func"]
    /\ ho_invoked' = IF cb.state = HALF_OPEN
                     THEN Min(ho_invoked + 1, success_threshold + 1)
                     ELSE ho_invoked
    /\ completed' = NotCompleted
    /\ UNCHANGED <<cb, promoted, erased, now, notOverlap>>

(* Lines 114-120: the wrapped operation returns or raises, and the call    *)
(* records it.                                                             *)
Complete(c, func) ==
    /\ call_pc[c] = "func"
    /\ cb' = IF func.kind = "return" THEN _on_success(cb) ELSE _on_failure(cb, now)
    /\ promoted' = IF cb.state # OPEN /\ cb'.state = OPEN THEN {} ELSE promoted
    /\ call_pc' = [call_pc EXCEPT ![c] = "idle"]
    /\ completed' = [kind |-> func.kind, t |-> now, pre |-> cb, post |-> cb']
    /\ UNCHANGED <<erased, ho_invoked, now, notOverlap>>

(* Time passes while calls are in flight.                                  *)
OverlapTick ==
    /\ now < MaxOverlapTime
    /\ now' = now + 1
    /\ completed' = NotCompleted
    /\ UNCHANGED <<cb, call_pc, promoted, erased, ho_invoked, notOverlap>>

NextOverlap ==
    \/ \E c \in Calls : CheckReset(c)
    \/ \E c \in Calls : SetHalfOpen(c)
    \/ \E c \in Calls : ZeroSuccessCount(c)
    \/ \E c \in Calls : BlockIfOpen(c)
    \/ \E c \in Calls, func \in Funcs : Complete(c, func)
    \/ OverlapTick

SpecOverlap == InitBreaker /\ [][NextOverlap]_vars

----------------------------------------------------------------------------
(* Concurrent checks.  check() takes no lock, so another thread may run    *)
(* any of its lines between two lines of this one.  Each check is followed *)
(* line by line; the records of the sequential checks (attempts, rl_last)  *)
(* are not kept here.                                                      *)
notRace ==
    <<max_per_minute, attempts, rl_last,
      cbVars, cacheVars, metricsVars, threadVars, ctorVars, statsVars, overlapVars>>

(* Lines 20-22: now = time.time(); window_start; bucket = _buckets[actor]  *)
ReadClock(c, actor) ==
    /\ chk[c].pc = "idle"
    /\ chk_started < MaxRaceChecks
    /\ chk' = [chk EXCEPT ![c] = [pc |-> "while", actor |-> actor, t |-> now]]
    /\ chk_started' = chk_started + 1
    /\ UNCHANGED <<buckets, admitted, now, notRace>>

(* Line 24: while bucket and bucket[0] < window_start                      *)
TestStale(c) ==
    LET bucket == buckets[chk[c].actor] IN
    /\ chk[c].pc = "while"
    /\ chk' = [chk EXCEPT ![c].pc =
                  IF bucket # <<>> /\ Head(bucket) < WindowStart(chk[c].t)
                  THEN "popleft" ELSE "if"]
    /\ UNCHANGED <<buckets, admitted, chk_started, now, notRace>>

(* Line 25: bucket.popleft(), an IndexError when the deque is empty by now *)
PopLeft(c) ==
    LET bucket == buckets[chk[c].actor] IN
    /\ chk[c].pc = "popleft"
    /\ IF bucket = <<>>
       THEN /\ chk' = [chk EXCEPT ![c] = NotChecking]
            /\ UNCHANGED buckets
       ELSE /\ chk' = [chk EXCEPT ![c].pc = "while"]
            /\ buckets' = [buckets EXCEPT ![chk[c].actor] = Tail(bucket)]
    /\ UNCHANGED <<admitted, chk_started, now, notRace>>

(* Lines 27-28: raise RateLimitExceeded when the bucket is full            *)
TestFull(c) ==
    /\ chk[c].pc = "if"
    /\ chk' = [chk EXCEPT ![c] =
                  IF Exceeded(buckets[chk[c].actor])
                  THEN NotChecking ELSE [@ EXCEPT !.pc = "append"]]
    /\ UNCHANGED <<buckets, admitted, chk_started, now, notRace>>

(* Line 30: bucket.append(now); the check is admitted                      *)
AppendNow(c) ==
    /\ chk[c].pc = "append"
    /\ buckets' = [buckets EXCEPT ![chk[c].actor] = Append(@, chk[c].t)]
    /\ admitted' = [admitted EXCEPT ![chk[c].actor] = Append(@, chk[c].t)]
    /\ chk' = [chk EXCEPT ![c] = NotChecking]
    /\ UNCHANGED <<chk_started, now, notRace>>

(* The clock moves on while checks are in flight.                          *)
RaceAdvance ==
    /\ now + TickUnit <= MaxClock
    /\ now' = now + TickUnit
    /\ UNCHANGED <<buckets, admitted, raceVars, notRace>>

NextRace ==
    \/ \E c \in Checkers, actor \in Actors : ReadClock(c, actor)
    \/ \E c \in Checkers : TestStale(c)
    \/ \E c \in Checkers : PopLeft(c)
    \/ \E c \in Checkers : TestFull(c)
    \/ \E c \in Checkers : AppendNow(c)
    \/ RaceAdvance

SpecRace == InitLimiter /\ [][NextRace]_vars

----------------------------------------------------------------------------
(* Recovery.  The wrapped operation may fail only while the time left      *)
(* leaves a recovery_timeout to wait out; from then on it succeeds.  Time  *)
(* keeps advancing and calls keep arriving: the clock and the succeeding   *)
(* call are weakly fair.                                                   *)
RecoveryCall(func) ==
    /\ func.kind = "raise" => now + recovery_timeout <= MaxRecoveryTime
    /\ call(func, 0)

SucceedingCall == \E func \in Funcs : func.kind = "return" /\ RecoveryCall(func)

RecoveryTick == now < MaxRecoveryTime /\ Tick

NextRecovery ==
    \/ \E func \in Funcs : RecoveryCall(func)
    \/ reset
    \/ RecoveryTick

SpecRecovery ==
    /\ InitBreaker
    /\ [][NextRecovery]_vars
    /\ WF_vars(RecoveryTick)
    /\ WF_vars(SucceedingCall)

----------------------------------------------------------------------------
(* Properties of the circuit breaker, checked under SpecBreaker.           *)

LastCall == last.op = "call"
LastInvoked == LastCall /\ last.invoked
LastSucceeded == LastInvoked /\ last.func.kind = "return"
LastFailed == LastInvoked /\ last.func.kind = "raise"
Elapsed == last.t0 - last.pre.last_failure_time

(* C1: starting from Closed with zero counters, after failure_threshold   *)
(* consecutive failing calls the breaker is Open with failure_count =      *)
(* failure_threshold, and after any smaller number of consecutive failing  *)
(* calls it is still Closed (with that many failures counted).             *)
C1_OpensAtThreshold ==
    /\ (run >= 1 /\ run < failure_threshold)
          => (cb.state = CLOSED /\ cb.failure_count = run)
    /\ run = failure_threshold
          => (cb.state = OPEN /\ cb.failure_count = failure_threshold)

C1_Witness ==
    /\ failure_threshold >= 2
    /\ run = failure_threshold
    /\ cb.state = OPEN

(* C2: a call made while the breaker is Open and less than                 *)
(* recovery_timeout has elapsed since last_failure_time fails with         *)
(* CircuitBreakerOpen carrying the service name, does not invoke the       *)
(* wrapped operation, and leaves state, failure_count, success_count and   *)
(* last_failure_time as they were.                                         *)
C2_OpenRejects ==
    (LastCall /\ last.pre.state = OPEN /\ Elapsed < recovery_timeout)
       => /\ last.ret = [kind |-> "raise", val |-> CircuitBreakerOpen(service_name)]
          /\ ~last.invoked
          /\ cb = last.pre

C2_Witness ==
    /\ LastCall
    /\ last.pre.state = OPEN
    /\ Elapsed = recovery_timeout - 1
    /\ last.func.kind = "return"
    /\ last.ret.val = CircuitBreakerOpen(service_name)

(* C3: a call made while the breaker is Open and at least recovery_timeout *)
(* has elapsed since last_failure_time moves it to HalfOpen with           *)
(* success_count 0 and invokes the wrapped operation on that same call;    *)
(* when the operation succeeds and success_threshold > 1 the breaker is    *)
(* HalfOpen with success_count = 1 after the call.                         *)
C3_StaleOpenProbes ==
    (LastCall /\ last.pre.state = OPEN /\ Elapsed >= recovery_timeout)
       => /\ last.gate.state = HALF_OPEN
          /\ last.gate.success_count = 0
          /\ last.invoked
          /\ last.ret = last.func
          /\ (last.func.kind = "return" /\ success_threshold > 1)
                => (cb.state = HALF_OPEN /\ cb.success_count = 1)

C3_Witness ==
    /\ LastSucceeded
    /\ last.pre.state = OPEN
    /\ Elapsed = recovery_timeout
    /\ success_threshold > 1
    /\ cb.state = HALF_OPEN

(* C4: one failing call in HalfOpen puts the breaker back to Open with     *)
(* success_count 0, whatever successes had been counted, and sets          *)
(* last_failure_time to the time of that failure, so that no probe is      *)
(* attempted until recovery_timeout has elapsed from that time.            *)
C4_HalfOpenFailureReopens ==
    (LastFailed /\ last.gate.state = HALF_OPEN)
       => /\ cb.state = OPEN
          /\ cb.success_count = 0
          /\ cb.last_failure_time = last.t1
          /\ \A t \in last.t1..(last.t1 + recovery_timeout - 1) :
                Gate(cb, t).state = OPEN
          /\ Gate(cb, last.t1 + recovery_timeout).state = HALF_OPEN

C4_Witness ==
    /\ LastFailed
    /\ last.pre.state = HALF_OPEN
    /\ last.pre.success_count >= 1
    /\ cb.state = OPEN

(* C5: a successful call in HalfOpen closes the breaker exactly when it is *)
(* the success_threshold-th successful call in a row since HalfOpen was    *)
(* entered, and then failure_count and success_count are both 0; with      *)
(* fewer successes the breaker stays HalfOpen.                             *)
C5_ClosesAtSuccessThreshold ==
    (LastSucceeded /\ last.gate.state = HALF_OPEN)
       => /\ hoSucc >= 1
          /\ (cb.state = CLOSED <=> hoSucc = success_threshold)
          /\ cb.state = CLOSED => (cb.failure_count = 0 /\ cb.success_count = 0)
          /\ hoSucc < success_threshold => cb.state = HALF_OPEN

C5_Witness ==
    /\ LastSucceeded
    /\ last.pre.state = HALF_OPEN
    /\ success_threshold >= 2
    /\ hoSucc = success_threshold
    /\ cb.state = CLOSED

(* C6: a successful call in Closed sets failure_count to 0, and as long as *)
(* every run of consecutive failing calls has been shorter than            *)
(* failure_threshold the breaker is Closed.                                *)
C6_SuccessForgives ==
    /\ (LastSucceeded /\ last.gate.state = CLOSED)
          => (cb.state = CLOSED /\ cb.failure_count = 0)
    /\ maxStreak < failure_threshold => cb.state = CLOSED

(* A failure, a success that forgave it, and a failure again: Closed.      *)
C6_Witness ==
    /\ LastFailed
    /\ last.pre.state = CLOSED
    /\ last.pre.failure_count = 0
    /\ last.pre.last_failure_time > 0
    /\ maxStreak < failure_threshold
    /\ cb.state = CLOSED

(* C7: whenever the wrapped operation is invoked the caller gets the       *)
(* operation's own outcome, its return value or the exception it raised,   *)
(* and a raised exception has been counted (failure_count incremented,     *)
(* last_failure_time set) by then.                                         *)
C7_OutcomePassThrough ==
    LastInvoked
       => /\ last.ret = last.func
          /\ last.func.kind = "raise"
                => /\ cb.failure_count = last.gate.failure_count + 1
                   /\ cb.last_failure_time = last.t1

(* The failure that opens the breaker still reaches the caller as itself.  *)
C7_Witness ==
    /\ LastFailed
    /\ last.pre.state = CLOSED
    /\ cb.state = OPEN
    /\ last.ret.val.type = "ConnectionError"

(* C8: reset() leaves the breaker Closed with failure_count = 0,           *)
(* success_count = 0 and no last failure time, whatever state it was in,   *)
(* and the call that follows a reset invokes the wrapped operation.        *)
C8_ResetForcesClosed ==
    /\ last.op = "reset" => cb = NewBreaker
    /\ (LastCall /\ last.reset_from # "none") => last.invoked

C8_Witness ==
    /\ LastCall
    /\ last.reset_from = OPEN
    /\ last.invoked
    /\ last.pre = NewBreaker

----------------------------------------------------------------------------
(* Properties of the rate limiter, checked under SpecLimiter.              *)

LastCheck == rl_last.op = "check"
LastWindowStart == rl_last.t - WINDOW

(* C9: a check is let through exactly when fewer than max_per_minute       *)
(* checks of that actor let through before lie in the trailing 60 seconds; *)
(* an actor's first max_per_minute checks pass, and its next check is      *)
(* rejected when it comes within 60 seconds of the first.                  *)
C9_SlidingWindowAdmission ==
    /\ LastCheck => (rl_last.ok <=> rl_last.prior < max_per_minute)
    /\ \A a \in Actors : \A i \in DOMAIN attempts[a] :
          /\ i <= max_per_minute => attempts[a][i].ok
          /\ (i = max_per_minute + 1 /\ attempts[a][i].t - attempts[a][1].t <= WINDOW)
                => ~attempts[a][i].ok

(* A rejection by a window that has already slid past an older admission.  *)
C9_Witness ==
    /\ LastCheck
    /\ ~rl_last.ok
    /\ max_per_minute = 2
    /\ rl_last.prior = 2
    /\ Len(admitted[rl_last.actor]) = 3

(* C10: when an actor's bucket is at the limit and only its oldest         *)
(* timestamp is more than 60 seconds old, the check passes and a further   *)
(* check at that time is rejected; a full bucket whose oldest timestamp is *)
(* exactly 60 seconds old rejects the check.                               *)
C10_WindowSlides ==
    (LastCheck /\ Len(rl_last.pre) = max_per_minute)
       => /\ (/\ rl_last.pre[1] < LastWindowStart
              /\ \A i \in 2..Len(rl_last.pre) : rl_last.pre[i] >= LastWindowStart)
                => /\ rl_last.ok
                   /\ ~CheckBucket(buckets[rl_last.actor], rl_last.t).ok
          /\ rl_last.pre[1] = LastWindowStart => ~rl_last.ok

(* The oldest timestamp is 80 seconds old, the next one exactly 60.        *)
C10_Witness ==
    /\ LastCheck
    /\ rl_last.ok
    /\ max_per_minute = 2
    /\ Len(rl_last.pre) = 2
    /\ rl_last.pre[1] < LastWindowStart
    /\ rl_last.pre[2] = LastWindowStart

(* Whether seq s is the last Len(s) elements of seq whole.                 *)
IsSuffix(s, whole) ==
    /\ Len(s) <= Len(whole)
    /\ s = SubSeq(whole, Len(whole) - Len(s) + 1, Len(whole))

(* C11: a rejected check appends no timestamp: the bucket it leaves is     *)
(* what remained of the bucket it found, every bucket holds times of       *)
(* admitted checks only, and whether an actor's check would pass now       *)
(* depends on its admitted checks alone, however many were rejected.       *)
C11_RejectedCostsNothing ==
    /\ (LastCheck /\ ~rl_last.ok)
          => /\ IsSuffix(buckets[rl_last.actor], rl_last.pre)
             /\ \A i \in DOMAIN buckets[rl_last.actor] :
                   buckets[rl_last.actor][i] # rl_last.t
                      \/ \E j \in DOMAIN rl_last.pre : rl_last.pre[j] = rl_last.t
    /\ \A a \in Actors :
          /\ IsSuffix(buckets[a], admitted[a])
          /\ CheckBucket(buckets[a], now).ok <=> InWindow(a, now) < max_per_minute

(* Admitted at 80 seconds after the admitted check, 40 after a rejected    *)
(* one.                                                                    *)
C11_Witness ==
    /\ LastCheck
    /\ rl_last.ok
    /\ max_per_minute = 1
    /\ Len(attempts[rl_last.actor]) = 2
    /\ ~attempts[rl_last.actor][2].ok
    /\ rl_last.t > attempts[rl_last.actor][2].t
    /\ rl_last.t - attempts[rl_last.actor][2].t <= WINDOW

----------------------------------------------------------------------------
(* Properties of the cache, checked under SpecCache.                       *)

LastGet == c_last.op = "get"

(* Whether the key of the last operation held an entry whose expiry had    *)
(* passed when the operation ran.                                          *)
LastKeyWasExpired ==
    /\ c_last.key \in DOMAIN c_last.pre
    /\ c_last.t > c_last.pre[c_last.key].expiry

(* C12: get(k) returns the value most recently stored for k exactly when   *)
(* an entry for k is still kept (set and since then not deleted, cleared,  *)
(* swept or found expired) and the time of the get is at most its expiry;  *)
(* in every other case it returns None.  So no value is returned once      *)
(* now > expiry.                                                           *)
C12_GetReturnsLiveValue ==
    LastGet =>
        /\ IF c_last.was.present /\ c_last.t <= c_last.was.expiry
           THEN c_last.ret = c_last.was.value
           ELSE c_last.ret = None
        /\ c_last.ret # None => c_last.t <= c_last.was.expiry

(* A get at the very second of the expiry still returns the value.         *)
C12_Witness ==
    /\ LastGet
    /\ c_last.ret # None
    /\ c_last.t = c_last.was.expiry
    /\ c_last.t > 1

(* C13: expiry is lazy.  A key is in the dict, and counted by size(),      *)
(* exactly while its entry has been set and not since deleted, cleared,    *)
(* swept, or found expired by a get on that key: the passing of time       *)
(* removes nothing.  A get on an expired key removes exactly that entry,   *)
(* so size() drops by one and every other entry, expired or not, is as it  *)
(* was; any other get leaves the dict as it was.                           *)
C13_LazyExpiry ==
    /\ DOMAIN cache = {k \in Keys : stored[k].present}
    /\ size(cache) = Cardinality({k \in Keys : stored[k].present})
    /\ \A k \in DOMAIN cache :
          cache[k] = [value |-> stored[k].value, expiry |-> stored[k].expiry]
    /\ (LastGet /\ LastKeyWasExpired)
          => /\ DOMAIN cache = DOMAIN c_last.pre \ {c_last.key}
             /\ \A k \in DOMAIN cache : cache[k] = c_last.pre[k]
             /\ size(cache) = size(c_last.pre) - 1
    /\ (LastGet /\ ~LastKeyWasExpired) => cache = c_last.pre

(* A get found its key expired while the other key, expired too, stayed.   *)
C13_Witness ==
    /\ LastGet /\ LastKeyWasExpired
    /\ c_last.ret = None
    /\ \E k \in DOMAIN cache : c_last.t > cache[k].expiry
    /\ size(cache) = 1

(* C14: cleanup_expired() removes exactly the entries whose expiry has     *)
(* passed and returns how many they were; every other entry keeps its      *)
(* value and expiry, and size() afterwards is the size before minus the    *)
(* returned count.                                                         *)
C14_CleanupExact ==
    c_last.op = "cleanup_expired" =>
        LET gone == {k \in DOMAIN c_last.pre : c_last.t > c_last.pre[k].expiry} IN
        /\ c_last.ret = Cardinality(gone)
        /\ DOMAIN cache = DOMAIN c_last.pre \ gone
        /\ \A k \in DOMAIN cache : cache[k] = c_last.pre[k]
        /\ size(cache) = size(c_last.pre) - c_last.ret

(* A sweep removed one entry and kept another that expires this second.    *)
C14_Witness ==
    /\ c_last.op = "cleanup_expired"
    /\ c_last.ret = 1
    /\ size(cache) = 1
    /\ \E k \in DOMAIN cache : cache[k].expiry = c_last.t

(* C15: set(k, v, ttl) always overwrites.  Afterwards the entry for k      *)
(* holds v and expires at the time of the set plus ttl, or plus            *)
(* default_ttl when ttl was omitted, whatever was stored for k before;     *)
(* entries under other keys keep their value and expiry.                   *)
C15_SetOverwrites ==
    c_last.op = "set" =>
        /\ c_last.key \in DOMAIN cache
        /\ cache[c_last.key].value = c_last.value
        /\ cache[c_last.key].expiry =
              c_last.t + (IF c_last.arg.given THEN c_last.arg.ttl ELSE default_ttl)
        /\ DOMAIN cache = DOMAIN c_last.pre \cup {c_last.key}
        /\ \A k \in DOMAIN cache \ {c_last.key} : cache[k] = c_last.pre[k]

(* A set with ttl 0 replaced a different value that had longer to live,    *)
(* while another key was stored.                                           *)
C15_Witness ==
    /\ c_last.op = "set"
    /\ c_last.arg.given /\ c_last.arg.ttl = 0
    /\ c_last.key \in DOMAIN c_last.pre
    /\ c_last.pre[c_last.key].value # c_last.value
    /\ c_last.pre[c_last.key].expiry > cache[c_last.key].expiry
    /\ size(cache) = 2

----------------------------------------------------------------------------
(* Properties of the metrics collector, checked under SpecMetrics and      *)
(* SpecLatency.                                                            *)

LastMetricsOp(op) == m_last.op = op

(* C16: get_summary(), called in any reachable state of the collector,     *)
(* returns: a thread inside get_summary at its call of get_request_rate    *)
(* can always go on.  The summary it returns reports the number of         *)
(* recorded breaker transitions and the most recent min(5, total) of them  *)
(* in recording order.                                                     *)
C16_SummaryReturns ==
    /\ m_pc = "get_summary" => ENABLED get_request_rate("get_summary", None)
    /\ LastMetricsOp("get_summary") =>
          LET total == Len(state_changes)
              kept == Min(RECENT_CHANGES, total)
          IN  /\ m_last.ret.state_changes = total
              /\ Len(m_last.ret.recent_changes) = kept
              /\ \A i \in 1..kept :
                    m_last.ret.recent_changes[i] = state_changes[total - kept + i]

(* C17: get_error_rate, for one operation or over all of them, returns     *)
(* errors/total, and get_cache_hit_rate returns hits/(hits + misses);      *)
(* each returns 0.0 when its denominator is 0.  No operation has more      *)
(* errors than requests, so every result lies in [0, 1].                   *)
C17_RatesInUnitInterval ==
    /\ \A o \in Ops : 0 <= error_counts[o] /\ error_counts[o] <= request_counts[o]
    /\ LastMetricsOp("get_error_rate") =>
          LET o == m_last.operation
              total == IF o = None
                       THEN request_counts[OpOrder[1]] + request_counts[OpOrder[2]]
                       ELSE request_counts[o]
              errors == IF o = None
                        THEN error_counts[OpOrder[1]] + error_counts[OpOrder[2]]
                        ELSE error_counts[o]
              r == m_last.ret
          IN  /\ r.den > 0
              /\ IF total = 0 THEN r.num = 0 ELSE r.num * total = errors * r.den
              /\ 0 <= r.num /\ r.num <= r.den
    /\ LastMetricsOp("get_cache_hit_rate") =>
          LET total == cache_hits + cache_misses
              r == m_last.ret
          IN  /\ r.den > 0
              /\ IF total = 0 THEN r.num = 0 ELSE r.num * total = cache_hits * r.den
              /\ 0 <= r.num /\ r.num <= r.den

(* The overall error rate was read strictly between 0 and 1, with errors   *)
(* on one operation and requests on both.                                  *)
C17_Witness ==
    /\ LastMetricsOp("get_error_rate")
    /\ m_last.operation = None
    /\ 0 < m_last.ret.num /\ m_last.ret.num < m_last.ret.den
    /\ error_counts[OpOrder[2]] > 0
    /\ request_counts[OpOrder[1]] > 0

(* C18: over the n >= 1 latency samples held, get_p95_latency returns the  *)
(* element at index floor(0.95 * n) of the samples in ascending order:     *)
(* a sample with at most that many samples below it and more than that     *)
(* many at or below it.  The index lies in 0..n-1.  With no samples the    *)
(* result is 0.                                                            *)
C18_P95AtFloorIndex ==
    LastMetricsOp("get_p95_latency") =>
        LET samples == Samples(latency_samples, m_last.operation)
            n == Len(samples)
            v == m_last.ret
        IN  IF n = 0 THEN v = 0
            ELSE \E idx \in 0..(n - 1) :
                    /\ 100 * idx <= 95 * n /\ 95 * n < 100 * (idx + 1)
                    /\ \E j \in 1..n : samples[j] = v
                    /\ Cardinality({j \in 1..n : samples[j] < v}) <= idx
                    /\ Cardinality({j \in 1..n : samples[j] <= v}) > idx

(* The percentile over all operations, read when one buffer is full and    *)
(* has dropped its oldest samples and the series runs downwards.           *)
C18_Witness ==
    /\ LastMetricsOp("get_p95_latency")
    /\ m_last.operation = None
    /\ ~feed.up
    /\ request_counts[OpOrder[1]] > LATENCY_SAMPLES_MAXLEN
    /\ Len(Samples(latency_samples, None)) > LATENCY_SAMPLES_MAXLEN

(* C19: when the latencies 1, 2, ..., 100 ms have been recorded, each      *)
(* once, for an operation, get_p95_latency for it returns the 95th value   *)
(* in ascending order, 95.                                                 *)
C19_P95OfHundred ==
    ( /\ LastMetricsOp("get_p95_latency")
      /\ m_last.operation = OpOrder[1]
      /\ request_counts[OpOrder[1]] = 100
      /\ latency_samples[OpOrder[1]] = [i \in 1..100 |-> i] )
        => m_last.ret = 95

(* C20: the error-rate check of check_health is healthy exactly when the   *)
(* overall error rate is strictly below 0.1 (10 * errors < total), which   *)
(* includes no requests at all, and unhealthy otherwise, so at exactly 0.1 *)
(* too; an unhealthy error-rate check makes the overall status unhealthy.  *)
C20_ErrorRateCheck ==
    LastMetricsOp("check_health") =>
        LET total == request_counts[OpOrder[1]] + request_counts[OpOrder[2]]
            errors == error_counts[OpOrder[1]] + error_counts[OpOrder[2]]
            h == m_last.ret
        IN  /\ h.checks.error_rate =
                  (IF total = 0 \/ 10 * errors < total THEN "healthy" ELSE "unhealthy")
            /\ h.checks.error_rate = "unhealthy" => h.status = "unhealthy"

(* One error in ten requests: the error-rate check alone is not healthy,   *)
(* and the overall status is unhealthy.                                    *)
C20_Witness ==
    /\ LastMetricsOp("check_health")
    /\ error_counts[OpOrder[1]] + error_counts[OpOrder[2]] = 1
    /\ request_counts[OpOrder[1]] + request_counts[OpOrder[2]] = 10
    /\ m_last.ret.checks.error_rate = "unhealthy"
    /\ m_last.ret.checks.latency = "healthy"
    /\ m_last.ret.checks.cache = "healthy"
    /\ m_last.ret.status = "unhealthy"

(* All latency samples the collector holds, and their sum.                 *)
HeldLatencies == latency_samples[OpOrder[1]] \o latency_samples[OpOrder[2]]

RECURSIVE TotalOf(_, _)
TotalOf(s, i) == IF i = 0 THEN 0 ELSE s[i] + TotalOf(s, i - 1)

(* C21: the latency check of check_health is healthy when the average of   *)
(* the latency samples held is below 1000 ms, degraded from 1000 ms up to  *)
(* but excluding 3000 ms, unhealthy from 3000 ms on; with no samples it is *)
(* healthy.                                                                *)
C21_LatencyCheck ==
    LastMetricsOp("check_health") =>
        LET n == Len(HeldLatencies)
            total == TotalOf(HeldLatencies, n)
            got == m_last.ret.checks.latency
        IN  /\ n = 0 => got = "healthy"
            /\ (n > 0 /\ total < 1000 * n) => got = "healthy"
            /\ (n > 0 /\ 1000 * n <= total /\ total < 3000 * n) => got = "degraded"
            /\ (n > 0 /\ 3000 * n <= total) => got = "unhealthy"

(* The average is exactly 1000 ms over two operations' samples, and the    *)
(* check is degraded.                                                      *)
C21_Witness ==
    /\ LastMetricsOp("check_health")
    /\ Len(latency_samples[OpOrder[1]]) = 1
    /\ Len(latency_samples[OpOrder[2]]) = 1
    /\ TotalOf(HeldLatencies, 2) = 2000
    /\ m_last.ret.checks.latency = "degraded"

(* C22: check_health evaluates the cache check once at least 10 cache      *)
(* requests (hits + misses) have been recorded: from 10 requests on it is  *)
(* healthy if the hit rate is above 0.5 and degraded otherwise; with fewer *)
(* than 10 it is healthy.                                                  *)
C22_CacheCheckFromTen ==
    LastMetricsOp("check_health") =>
        LET total == cache_hits + cache_misses
            got == m_last.ret.checks.cache
        IN  IF total >= 10
            THEN got = (IF 2 * cache_hits > total THEN "healthy" ELSE "degraded")
            ELSE got = "healthy"

(* How bad a status is: unhealthy > degraded > healthy.                    *)
Severity(status) ==
    IF status = "unhealthy" THEN 2 ELSE IF status = "degraded" THEN 1 ELSE 0

(* C23: the overall status of check_health is the worst of its four check  *)
(* statuses: it is one of them, and none of the four is worse.  The        *)
(* request-rate check is always healthy.                                   *)
C23_OverallIsWorst ==
    LastMetricsOp("check_health") =>
        LET c == m_last.ret.checks
            four == {c.error_rate, c.request_rate, c.latency, c.cache}
        IN  /\ four \subseteq Statuses
            /\ c.request_rate = "healthy"
            /\ m_last.ret.status \in four
            /\ \A s \in four : Severity(s) <= Severity(m_last.ret.status)

(* An unhealthy error rate together with a degraded latency: unhealthy.    *)
C23_Witness ==
    /\ LastMetricsOp("check_health")
    /\ m_last.ret.checks.error_rate = "unhealthy"
    /\ m_last.ret.checks.latency = "degraded"
    /\ m_last.ret.checks.cache = "healthy"
    /\ m_last.ret.status = "unhealthy"

(* The calls of a kind, for an operation, that threads are making now.     *)
InFlight(kind, operation) ==
    Cardinality({t \in Threads :
                    /\ th_pc[t] # "idle"
                    /\ th_call[t].kind = kind
                    /\ th_call[t].operation = operation})

InFlightErrors(operation) ==
    Cardinality({t \in Threads :
                    /\ th_pc[t] # "idle"
                    /\ th_call[t].kind = "record_request"
                    /\ th_call[t].operation = operation
                    /\ th_call[t].error})

Quiescent == \A t \in Threads : th_pc[t] = "idle"

(* C24: under any interleaving of recording calls by several threads no    *)
(* update is lost.  Every counter is at least the number of calls of its   *)
(* kind that have returned and exceeds it by at most the number of such    *)
(* calls in progress; so when no call is in progress, request_counts[op]   *)
(* is the number of record_request(op, ...) calls made, error_counts[op]   *)
(* the number of those with error, and the hit and miss counters the       *)
(* numbers of record_cache_hit and record_cache_miss calls.                *)
C24_NoLostUpdate ==
    /\ \A o \in Ops :
          /\ done_calls.requests[o] <= request_counts[o]
          /\ request_counts[o] <= done_calls.requests[o] + InFlight("record_request", o)
          /\ done_calls.errors[o] <= error_counts[o]
          /\ error_counts[o] <= done_calls.errors[o] + InFlightErrors(o)
    /\ done_calls.hits <= cache_hits
    /\ cache_hits <= done_calls.hits + InFlight("record_cache_hit", None)
    /\ done_calls.misses <= cache_misses
    /\ cache_misses <= done_calls.misses + InFlight("record_cache_miss", None)
    /\ Quiescent =>
          /\ request_counts = done_calls.requests
          /\ error_counts = done_calls.errors
          /\ cache_hits = done_calls.hits
          /\ cache_misses = done_calls.misses

(* Both threads have made all their calls, three of them failed requests   *)
(* for the same operation and one a cache hit, and all have returned.      *)
C24_Witness ==
    /\ Quiescent
    /\ \A t \in Threads : th_calls[t] = MaxThreadCalls
    /\ done_calls.requests[OpOrder[1]] = 2 * MaxThreadCalls - 1
    /\ done_calls.errors[OpOrder[1]] = 2 * MaxThreadCalls - 1
    /\ done_calls.hits = 1
    /\ request_counts[OpOrder[2]] = 0

(* C25: MetricsCollector.reset() zeroes everything.  Right after it every  *)
(* per-operation request and error count is 0, both buffers of every       *)
(* operation are empty, the cache hit and miss counters are 0 and the      *)
(* breaker transition log is empty; so the error rate, the cache hit rate, *)
(* the average latency, the P95 latency and the request rate read 0, for   *)
(* one operation or for all, and check_health is healthy.                  *)
C25_ResetZeroes ==
    LastMetricsOp("reset") =>
        /\ \A o \in Ops :
              /\ request_counts[o] = 0 /\ error_counts[o] = 0
              /\ request_times[o] = <<>> /\ latency_samples[o] = <<>>
        /\ cache_hits = 0 /\ cache_misses = 0
        /\ state_changes = <<>>
        /\ start_time = m_last.t
        /\ \A o \in OpArgs :
              /\ ErrorRate(request_counts, error_counts, o).num = 0
              /\ AverageLatency(latency_samples, o).num = 0
              /\ P95Latency(latency_samples, o) = 0
              /\ RequestRate(request_times, o, now).num = 0
        /\ CacheHitRate(cache_hits, cache_misses).num = 0
        /\ CheckHealth(request_counts, error_counts, request_times, latency_samples,
                       cache_hits, cache_misses, now).status = "healthy"

(* A reset of a collector that held requests, latency samples, a cache     *)
(* request and a breaker transition, some time after construction.         *)
C25_Witness ==
    /\ LastMetricsOp("reset")
    /\ m_last.ret.requests > 0
    /\ m_last.ret.samples > 0
    /\ m_last.ret.cache > 0
    /\ m_last.ret.changes > 0
    /\ m_last.t > 1

----------------------------------------------------------------------------
(* Properties that span the components.                                    *)

(* C26, the breaker: resetting a breaker that reset() has just left        *)
(* changes nothing.                                                        *)
C26_BreakerPart ==
    /\ ResetBreaker(ResetBreaker(cb)) = ResetBreaker(cb)
    /\ last.op = "reset" => ResetBreaker(cb) = cb

(* C26, the collector: what reset() leaves is what a second reset() would  *)
(* leave, the start time apart.                                            *)
C26_MetricsPart ==
    LastMetricsOp("reset") =>
        /\ request_counts = [o \in Ops |-> 0]
        /\ error_counts = [o \in Ops |-> 0]
        /\ request_times = [o \in Ops |-> <<>>]
        /\ latency_samples = [o \in Ops |-> <<>>]
        /\ cache_hits = 0 /\ cache_misses = 0
        /\ state_changes = <<>>

(* C26, the cache: after clear() a second clear() finds nothing to remove. *)
C26_CachePart == c_last.op = "clear" => cache = EmptyDict

(* C26, the limiter: its reset operation completes.                        *)
C26_LimiterPart == rl_last.op = "reset" => rl_last.ok

(* C26: reset is idempotent on each of the four components: calling the    *)
(* reset operation twice in a row leaves the state one call leaves, for    *)
(* CircuitBreaker.reset, MetricsCollector.reset (the start time apart),    *)
(* the cache's clear and the rate limiter's reset.                         *)
C26_ResetIdempotent ==
    /\ C26_BreakerPart
    /\ C26_MetricsPart
    /\ C26_CachePart
    /\ C26_LimiterPart

(* C27: a CircuitBreaker constructed with failure_threshold,               *)
(* recovery_timeout or success_threshold <= 0, or a RateLimiter with       *)
(* max_per_minute <= 0, fails with a ValueError naming the argument and    *)
(* yields no instance, so no operation ever runs on it.  A breaker or      *)
(* limiter that exists was given positive arguments, and its configuration *)
(* is still what it was given, whatever operations have run since.         *)
C27_PositiveConfiguration ==
    /\ made = "ValueError" <=>
          (ctor.class # "none" /\ \E i \in DOMAIN ctor.args : ctor.args[i] <= 0)
    /\ made = "ValueError" =>
          /\ ctor.error # "none"
          /\ last = NoOperation
          /\ rl_last = NoCheck
    /\ made = "CircuitBreaker" =>
          /\ ctor.class = "CircuitBreaker" /\ ctor.error = "none"
          /\ <<failure_threshold, recovery_timeout, success_threshold>> = ctor.args
          /\ failure_threshold > 0 /\ recovery_timeout > 0 /\ success_threshold > 0
    /\ made = "RateLimiter" =>
          /\ ctor.class = "RateLimiter" /\ ctor.error = "none"
          /\ <<max_per_minute>> = ctor.args
          /\ max_per_minute > 0

(* A breaker whose only invalid argument is recovery_timeout = 0 was       *)
(* refused.                                                                *)
C27_Witness ==
    /\ made = "ValueError"
    /\ ctor.class = "CircuitBreaker"
    /\ ctor.args = <<1, 0, 1>>
    /\ ctor.error = "recovery_timeout must be positive"

(* C28: get_stats() never mutates the breaker.  In any state, Open with    *)
(* recovery_timeout elapsed included, the state, the counters and          *)
(* last_failure_time are after the call what they were before it, the dict *)
(* reports them as they are, and it reports last_failure_time as None      *)
(* exactly when no failure has been recorded since construction or the     *)
(* last reset().                                                           *)
C28_StatsReadOnly ==
    stats.op = "get_stats" =>
        /\ stats.post = stats.pre
        /\ stats.ret.state = stats.pre.state
        /\ stats.ret.failure_count = stats.pre.failure_count
        /\ stats.ret.success_count = stats.pre.success_count
        /\ stats.ret.last_failure_time.given <=> stats.failed
        /\ stats.ret.last_failure_time.given =>
              stats.ret.last_failure_time.at = stats.pre.last_failure_time

(* get_stats() on an Open breaker whose recovery_timeout has elapsed, and  *)
(* the breaker is still Open.                                              *)
C28_Witness ==
    /\ stats.op = "get_stats"
    /\ stats.t = now
    /\ stats.pre.state = OPEN
    /\ _should_attempt_reset(stats.pre, stats.t)
    /\ cb.state = OPEN

(* C29: size() is the number of distinct keys that have been set and not   *)
(* since removed by delete, clear, an expired get or cleanup_expired.      *)
(* delete(k) removes k and nothing else; when k is absent it raises        *)
(* nothing and the dict is as it was.  After clear() size() is 0 and a get *)
(* of any key returns None.                                                *)
C29_SizeDeleteClear ==
    /\ size(cache) = Cardinality({k \in Keys : stored[k].present})
    /\ c_last.op = "delete" =>
          /\ c_last.ret = None
          /\ DOMAIN cache = DOMAIN c_last.pre \ {c_last.key}
          /\ \A k \in DOMAIN cache : cache[k] = c_last.pre[k]
          /\ c_last.key \notin DOMAIN c_last.pre => cache = c_last.pre
    /\ c_last.op = "clear" =>
          /\ size(cache) = 0
          /\ \A k \in Keys : CacheGet(cache, k, now).ret = None

(* A delete removed a key that was stored and the other key remained.      *)
C29_Witness ==
    /\ c_last.op = "delete"
    /\ c_last.key \in DOMAIN c_last.pre
    /\ size(c_last.pre) = 2
    /\ size(cache) = 1

(* C30: when two calls overlap as recovery_timeout elapses, the promotion  *)
(* from Open to HalfOpen and its reset of success_count take effect once:  *)
(* the two calls do not both promote the breaker after it opened, and no   *)
(* promotion erases a success that a call has already counted in HalfOpen. *)
C30_PromotionOnce ==
    /\ Cardinality(promoted) <= 1
    /\ ~erased

(* C31: under concurrent checks for one actor the trim and the append act  *)
(* as one step: in every interleaving, the admitted checks of an actor     *)
(* whose timestamps lie in the 60 seconds up to any admitted timestamp are *)
(* at most max_per_minute.                                                 *)
C31_AtomicBucket ==
    \A a \in Actors : \A i \in DOMAIN admitted[a] :
        Cardinality({j \in DOMAIN admitted[a] :
                        /\ admitted[a][j] >= admitted[a][i] - WINDOW
                        /\ admitted[a][j] <= admitted[a][i]}) <= max_per_minute

(* The transitions of C32 as sequential call and reset operations make     *)
(* them: a whole call() is one step, so an Open breaker that a call closes *)
(* has passed through HalfOpen at that call's gate.                        *)
C32_SequentialPart ==
    /\ last.op = "reset" => cb.state = CLOSED
    /\ last.op = "call" =>
          /\ last.pre.state = CLOSED =>
                last.gate.state = CLOSED /\ cb.state \in {CLOSED, OPEN}
          /\ last.pre.state = HALF_OPEN => last.gate.state = HALF_OPEN
          /\ (last.pre.state = OPEN /\ cb.state # OPEN) =>
                /\ last.gate.state = HALF_OPEN
                /\ last.t0 - last.pre.last_failure_time >= recovery_timeout

(* C32: the breaker only goes from Closed to Open, from Open to HalfOpen   *)
(* and from HalfOpen to Closed or Open.  It never enters HalfOpen from     *)
(* Closed, and it leaves Open only for HalfOpen once recovery_timeout has  *)
(* elapsed since the last failure (there is no reset() among these steps). *)
C32_Transitions ==
    [][/\ cb.state = CLOSED => cb'.state \in {CLOSED, OPEN}
       /\ (cb.state = OPEN /\ cb'.state # OPEN) =>
             /\ cb'.state = HALF_OPEN
             /\ now - cb.last_failure_time >= recovery_timeout]_vars

(* C33: in one HalfOpen episode, from entering HalfOpen until leaving it,  *)
(* at most success_threshold wrapped operations are invoked, also when     *)
(* calls overlap in time.                                                  *)
C33_LimitedProbes == ho_invoked <= success_threshold

(* C34: after any sequence of checks with a non-decreasing clock, every    *)
(* actor's bucket is ordered oldest first, holds at most max_per_minute    *)
(* timestamps, and has lost timestamps from its front only: it is the tail *)
(* end of the timestamps ever appended to it, and a check leaves what it   *)
(* found minus some front entries, plus its own time when admitted.        *)
C34_BucketShape ==
    /\ \A a \in Actors :
          /\ \A i \in DOMAIN buckets[a] : \A j \in DOMAIN buckets[a] :
                i < j => buckets[a][i] <= buckets[a][j]
          /\ Len(buckets[a]) <= max_per_minute
          /\ IsSuffix(buckets[a], admitted[a])
    /\ LastCheck =>
          \E k \in 0..Len(rl_last.pre) :
             buckets[rl_last.actor] =
                SubSeq(rl_last.pre, k + 1, Len(rl_last.pre))
                   \o (IF rl_last.ok THEN <<rl_last.t>> ELSE <<>>)

(* A full bucket of two distinct times that has lost an older one.         *)
C34_Witness ==
    \E a \in Actors :
       /\ max_per_minute = 2
       /\ Len(buckets[a]) = 2
       /\ buckets[a][1] < buckets[a][2]
       /\ Len(admitted[a]) > 2

(* C35: for every operation the timestamp buffer never holds more than     *)
(* 1000 entries and the latency buffer never more than 100.  A recording   *)
(* made when a buffer is full drops its oldest entry only, so the buffers  *)
(* hold the latest 1000 timestamps and the latest 100 latencies in the     *)
(* order they were recorded, while request_count counts every request.     *)
(* (The k-th request is recorded at second k with the k-th latency of the  *)
(* ramp.)                                                                  *)
C35_RingBuffers ==
    \A o \in Ops :
       LET n == request_counts[o]
           kt == Min(n, REQUEST_TIMES_MAXLEN)
           kl == Min(n, LATENCY_SAMPLES_MAXLEN)
       IN
       /\ n > 0 => n \in {now - 1, now}
       /\ Len(request_times[o]) = kt
       /\ \A i \in 1..kt : request_times[o][i] = n - kt + i
       /\ Len(latency_samples[o]) = kl
       /\ \A i \in 1..kl : latency_samples[o][i] = FeedLatency(feed, n - kl + i)

(* Two requests after the timestamp buffer filled, the two oldest are gone *)
(* and the count is past the capacity.                                     *)
C35_Witness ==
    \E o \in Ops :
       /\ request_counts[o] = REQUEST_TIMES_MAXLEN + 2
       /\ Len(request_times[o]) = REQUEST_TIMES_MAXLEN
       /\ request_times[o][1] = 3
       /\ Len(latency_samples[o]) = LATENCY_SAMPLES_MAXLEN

(* C36: in every state reached by call and reset operations made one after *)
(* another, success_count is 0 whenever the breaker is not HalfOpen, and   *)
(* 0 <= success_count < success_threshold always.                          *)
C36_SuccessCountRange ==
    /\ cb.state # HALF_OPEN => cb.success_count = 0
    /\ cb.success_count >= 0
    /\ cb.success_count < success_threshold

(* A failed probe reopened a breaker that had counted a success.           *)
C36_Witness ==
    /\ LastFailed
    /\ last.pre.state = HALF_OPEN
    /\ last.pre.success_count = success_threshold - 1
    /\ last.pre.success_count > 0
    /\ cb.state = OPEN

(* C37: in every state reached by call and reset operations made one after *)
(* another, failure_count < failure_threshold whenever the breaker is      *)
(* Closed, and failure_count >= failure_threshold with a recorded          *)
(* last_failure_time whenever it is Open or HalfOpen.  Entering HalfOpen   *)
(* leaves failure_count as it is, and every failed probe adds one to it.   *)
C37_FailureCountRange ==
    /\ cb.state = CLOSED => cb.failure_count < failure_threshold
    /\ cb.state \in {OPEN, HALF_OPEN} =>
          /\ cb.failure_count >= failure_threshold
          /\ cb.last_failure_time > 0
    /\ LastCall => last.gate.failure_count = last.pre.failure_count
    /\ (LastFailed /\ last.gate.state = HALF_OPEN) =>
          cb.failure_count = last.pre.failure_count + 1

(* The second failed probe in a row: failure_count is two past the         *)
(* threshold.                                                              *)
C37_Witness ==
    /\ LastFailed
    /\ last.pre.state = OPEN
    /\ last.gate.state = HALF_OPEN
    /\ cb.state = OPEN
    /\ cb.failure_count = failure_threshold + 2

(* C38: the breaker always recovers.  If from some point on the wrapped    *)
(* operation always succeeds, time keeps advancing and calls keep          *)
(* arriving, the breaker eventually becomes Closed and stays Closed.       *)
C38_Recovers == <>[](cb.state = CLOSED)

(* A probe at the end of the time allowed closed a breaker that had failed *)
(* a probe before.                                                         *)
C38_Witness ==
    /\ LastSucceeded
    /\ last.pre.state = OPEN
    /\ last.pre.failure_count > failure_threshold
    /\ last.t0 = MaxRecoveryTime
    /\ cb.state = CLOSED

C40_ActorsIsolated ==
    /\ [](\A a \in Actors : InWindow(a, now) = 0 => CheckBucket(buckets[a], now).ok)
    /\ [][\A a \in Actors :
             buckets'[a] # buckets[a] =>
                (rl_last'.op = "check" /\ rl_last'.actor = a)]_vars

(* An actor is admitted while the other, its limit exhausted, would be     *)
(* rejected.                                                               *)
C40_Witness ==
    /\ LastCheck
    /\ rl_last.ok
    /\ rl_last.pre = <<>>
    /\ \E a \in Actors \ {rl_last.actor} :
          /\ ~CheckBucket(buckets[a], now).ok
          /\ Len(attempts[a]) > max_per_minute
          /\ ~attempts[a][Len(attempts[a])].ok

============================================================================
